---- MODULE Spec2Model ----
(***************************************************************************)
(* Verification model of jsgroth/advent-of-code-2023.                      *)
(*                                                                         *)
(* The repository is a set of independent solvers, one binary per day.     *)
(* Each day that is modelled here owns its variables and has its own       *)
(* initial predicate, next-state relation and specification (Spec15 for    *)
(* src/bin/day15.rs, Spec19 for src/bin/day19.rs, ...).  While one day's   *)
(* solver runs, the variables of the other days stay at their idle values. *)
(***************************************************************************)
EXTENDS Integers, Sequences, FiniteSets, TLC

VARIABLES
    \* day 15 (solve_part_2)
    buckets,        \* Vec<Vec<(&str, u32)>>, indexed 0..255
    command,        \* the (cmd_label, command) the loop handled last, or "none"
    \* day 19 (solve_part_1 / solve_part_2)
    workflows,      \* the parsed workflow map: name -> Workflow
    part,           \* the part last given to check_part, or "none"
    accepted,       \* check_part's result for that part
    combinations,   \* solve_part_2's result, or -1 before it ran
    pc19,
    \* day 20 (solve_part_1 / send_pulse)
    broadcaster,    \* Broadcaster: its outputs
    node_map,       \* name -> Node (flip-flop or conjunction, with its state)
    pulse_queue,    \* VecDeque<(input_name, output_name, pulse)>
    all_pulses,     \* the pulses send_pulse has recorded in this press
    pulse_count,    \* PulseCount {low, high} summed over the presses so far
    presses,        \* completed iterations of `for _ in 0..1000`
    result20,       \* solve_part_1's return value, or -1
    pc20,
    sent,           \* history: pulses handed out so far, counted when sent
    \* day 14 (solve_part_2)
    input14,        \* the parsed grid
    grid14,         \* `grid`, shifted in place
    recorded_grids, \* FxHashMap<grid, cycle>, as the grids in cycle order
    cycle14,        \* the loop counter `cycle`
    result14,       \* solve_part_2's return value, or -1
    pc14,
    \* day 12 (count_unique_arrangements)
    springs12,      \* Record::springs
    groups12,       \* Record::damage_groups
    result12,       \* count_unique_arrangements' return value, or -1
    cache12,        \* the cache as count_inner left it
    pc12,            \* "parsed", "returned" or "panicked"
    \* day 17 (solve)
    map17,          \* the parsed map
    part17,         \* 1 for solve_part_1, 2 for solve_part_2
    pop_order,      \* how the heap orders entries of equal heat loss
    heap17,         \* BinaryHeap<Reverse<HeapEntry>>
    visited17,      \* FxHashMap<VisitedKey, u32>
    result17,       \* solve's return value, or -1
    pc17,            \* "parsed", "search", "returned" or "panicked"
    \* day 16 (count_energized / visit)
    grid16,         \* the parsed grid
    start16,        \* count_energized's start_i, start_j, start_direction
    visited16,      \* VisitedGrid: per tile the directions that are set
    stack16,        \* the calls of visit still to run, the next one first
    expanded16,     \* history: the calls that got past visit's first check
    result16,       \* count_energized's return value, or -1
    pc16,            \* "parsed", "visit" or "done"
    \* day 8 (solve_part_2)
    input8,         \* the parsed input: directions and nodes
    current8,       \* `current`: the node each path stands on, by name
    first_z_step8,  \* FxHashMap<&str, u64>
    steps8,         \* `steps`
    result8,        \* solve_part_2's return value, or -1
    pc8,             \* "loop" or "returned"
    \* day 25 (solve / edmonds_karp)
    graph25,        \* Graph: node -> the nodes it has an edge to
    source25,       \* `source`
    tried25,        \* the sinks solve's loop is through with
    sink25,         \* `sink`, or 0 before the first
    flows25,        \* Edge::flow of the cloned graph, by <<node, edge name>>
    flow25,         \* `flow` of edmonds_karp
    result25,       \* solve's return value, or -1
    pc25,            \* "solve", "edmonds_karp", "returned" or "panicked"
    \* day 18 (solve)
    text18,         \* the lines of the input file read so far
    plan18,         \* history: the <<direction, distance>> each line stands for
    direction_type18, \* solve's direction_type
    result18,       \* solve's return value, or -1
    pc18,            \* "parse", "returned" or "panicked"
    \* day 21 (solve_part_2_inner)
    map21,          \* Input::map, rows and columns from 0
    start21,        \* Input::start
    target_steps21, \* `target_steps`
    overflow_checks21, \* whether the build panics on integer overflow
    count21,        \* `count`; the return value once pc21 is "returned"
    done21,         \* the calls of count_edge or of count_corner made
    pc21,            \* "center", "edges", "corners", "returned", "panicked"
    \* src/lib.rs and the binaries' main
    binary,         \* the day whose binary runs
    environment,    \* the environment variables: name -> value
    args,           \* env::args()
    files,          \* the names of the files that can be read
    solutions,      \* history: the values the parts' functions returned
    stdout,         \* the lines printed so far
    threads,        \* history: the threads the process has run, main included
    pcMain          \* "read_input", "part1", "part2", "time_solution", "exited", "error", "panicked"

vars15 == <<buckets, command>>
vars19 == <<workflows, part, accepted, combinations, pc19>>
vars20 == <<broadcaster, node_map, pulse_queue, all_pulses, pulse_count,
            presses, result20, pc20, sent>>
vars14 == <<input14, grid14, recorded_grids, cycle14, result14, pc14>>
vars12 == <<springs12, groups12, result12, cache12, pc12>>
vars17 == <<map17, part17, pop_order, heap17, visited17, result17, pc17>>
vars16 == <<grid16, start16, visited16, stack16, expanded16, result16, pc16>>
vars8 == <<input8, current8, first_z_step8, steps8, result8, pc8>>
vars25 == <<graph25, source25, tried25, sink25, flows25, flow25, result25, pc25>>
vars18 == <<text18, plan18, direction_type18, result18, pc18>>
vars21 == <<map21, start21, target_steps21, overflow_checks21, count21, done21, pc21>>
varsMain == <<binary, environment, args, files, solutions, stdout, threads, pcMain>>
vars == <<vars15, vars19, vars20, vars14, vars12, vars17, vars16, vars8, vars25, vars18, vars21, varsMain>>

\* What each day's solver leaves alone: the other days' variables
Others15 == <<vars19, vars20, vars14, vars12, vars17, vars16, vars8, vars25, vars18, vars21, varsMain>>
Others19 == <<vars15, vars20, vars14, vars12, vars17, vars16, vars8, vars25, vars18, vars21, varsMain>>
Others20 == <<vars15, vars19, vars14, vars12, vars17, vars16, vars8, vars25, vars18, vars21, varsMain>>
Others14 == <<vars15, vars19, vars20, vars12, vars17, vars16, vars8, vars25, vars18, vars21, varsMain>>
Others12 == <<vars15, vars19, vars20, vars14, vars17, vars16, vars8, vars25, vars18, vars21, varsMain>>
Others17 == <<vars15, vars19, vars20, vars14, vars12, vars16, vars8, vars25, vars18, vars21, varsMain>>
Others16 == <<vars15, vars19, vars20, vars14, vars12, vars17, vars8, vars25, vars18, vars21, varsMain>>
Others8 == <<vars15, vars19, vars20, vars14, vars12, vars17, vars16, vars25, vars18, vars21, varsMain>>
Others25 == <<vars15, vars19, vars20, vars14, vars12, vars17, vars16, vars8, vars18, vars21, varsMain>>
Others18 == <<vars15, vars19, vars20, vars14, vars12, vars17, vars16, vars8, vars25, vars21, varsMain>>
Others21 == <<vars15, vars19, vars20, vars14, vars12, vars17, vars16, vars8, vars25, vars18, varsMain>>
OthersMain == <<vars15, vars19, vars20, vars14, vars12, vars17, vars16, vars8, vars25, vars18, vars21>>

\* The idle values of a day's variables while another day's solver runs
Idle15 ==
    /\ buckets = <<>>
    /\ command = <<>>

Idle19 ==
    /\ workflows = <<>>
    /\ part = <<>>
    /\ accepted = FALSE
    /\ combinations = -1
    /\ pc19 = "idle"

Idle20 ==
    /\ broadcaster = <<>>
    /\ node_map = <<>>
    /\ pulse_queue = <<>>
    /\ all_pulses = <<>>
    /\ pulse_count = <<>>
    /\ presses = 0
    /\ result20 = -1
    /\ pc20 = "idle"
    /\ sent = <<>>

Idle14 ==
    /\ input14 = <<>>
    /\ grid14 = <<>>
    /\ recorded_grids = <<>>
    /\ cycle14 = 0
    /\ result14 = -1
    /\ pc14 = "idle"

Idle12 ==
    /\ springs12 = <<>>
    /\ groups12 = <<>>
    /\ result12 = -1
    /\ cache12 = <<>>
    /\ pc12 = "idle"

Idle17 ==
    /\ map17 = <<>>
    /\ part17 = 0
    /\ pop_order = "idle"
    /\ heap17 = {}
    /\ visited17 = <<>>
    /\ result17 = -1
    /\ pc17 = "idle"

Idle16 ==
    /\ grid16 = <<>>
    /\ start16 = <<>>
    /\ visited16 = <<>>
    /\ stack16 = <<>>
    /\ expanded16 = <<>>
    /\ result16 = -1
    /\ pc16 = "idle"

Idle8 ==
    /\ input8 = <<>>
    /\ current8 = <<>>
    /\ first_z_step8 = <<>>
    /\ steps8 = 0
    /\ result8 = -1
    /\ pc8 = "idle"

Idle25 ==
    /\ graph25 = <<>>
    /\ source25 = 0
    /\ tried25 = {}
    /\ sink25 = 0
    /\ flows25 = <<>>
    /\ flow25 = 0
    /\ result25 = -1
    /\ pc25 = "idle"

Idle18 ==
    /\ text18 = <<>>
    /\ plan18 = <<>>
    /\ direction_type18 = "idle"
    /\ result18 = -1
    /\ pc18 = "idle"

Idle21 ==
    /\ map21 = <<>>
    /\ start21 = <<>>
    /\ target_steps21 = 0
    /\ overflow_checks21 = FALSE
    /\ count21 = 0
    /\ done21 = 0
    /\ pc21 = "idle"

IdleMain ==
    /\ binary = 0
    /\ environment = <<>>
    /\ args = <<>>
    /\ files = {}
    /\ solutions = <<>>
    /\ stdout = <<>>
    /\ threads = {}
    /\ pcMain = "idle"

----------------------------------------------------------------------------
(* Shared helpers *)

Range(s) == {s[i] : i \in DOMAIN s}

Min2(a, b) == IF a <= b THEN a ELSE b

Max2(a, b) == IF a >= b THEN a ELSE b

RECURSIVE SumSeq(_)
SumSeq(s) == IF s = <<>> THEN 0 ELSE Head(s) + SumSeq(Tail(s))

----------------------------------------------------------------------------
(* Day 15: Lens Library (src/bin/day15.rs)                                 *)

\* Boxes of the hash map: vec![vec![]; 256]
NumBuckets == 256

\* Largest focal length an input command carries
MaxFocal == 2

\* Labels as sequences of character codes: "cm", "rn", "mqr" (all hash to 0),
\* "qp", "mqc" (both hash to 1)
Labels == { <<99, 109>>, <<114, 110>>, <<109, 113, 114>>,
            <<113, 112>>, <<109, 113, 99>> }

FocalLengths == 1..MaxFocal

\* No command handled yet
NoCommand == [label |-> <<>>, kind |-> "none", length |-> 0]

\* enum Command { Remove, Insert(u32) }, paired with its label
Commands == [label : Labels, kind : {"Remove"}, length : {0}]
            \cup [label : Labels, kind : {"Insert"}, length : FocalLengths]

\* s.chars().fold(0, |hash, c| ((hash + c as u32) * 17) % 256)
RECURSIVE hashFold(_, _)
hashFold(h, s) ==
    IF s = <<>> THEN h
    ELSE hashFold(((h + Head(s)) * 17) % 256, Tail(s))

hash(s) == hashFold(0, s)

\* bucket.retain(|(label, _)| *label != cmd_label)
RECURSIVE retain(_, _)
retain(bucket, cmd_label) ==
    IF bucket = <<>> THEN <<>>
    ELSE IF Head(bucket)[1] /= cmd_label
         THEN <<Head(bucket)>> \o retain(Tail(bucket), cmd_label)
         ELSE retain(Tail(bucket), cmd_label)

\* A removal that fills the hole with the last lens (Vec::swap_remove)
removeLensSwap(bucket, cmd_label) ==
    IF \E i \in DOMAIN bucket : bucket[i][1] = cmd_label
    THEN LET i == CHOOSE k \in DOMAIN bucket : bucket[k][1] = cmd_label
             n == Len(bucket)
         IN  IF i = n THEN SubSeq(bucket, 1, n - 1)
             ELSE SubSeq([bucket EXCEPT ![i] = bucket[n]], 1, n - 1)
    ELSE bucket

\* The Remove arm of the match
removeLens(bucket, cmd_label) == retain(bucket, cmd_label)

\* The first slot holding cmd_label, 0 when there is none: the iter_mut loop
\* stops at the first match
RECURSIVE findSlot(_, _, _)
findSlot(bucket, cmd_label, i) ==
    IF i > Len(bucket) THEN 0
    ELSE IF bucket[i][1] = cmd_label THEN i
    ELSE findSlot(bucket, cmd_label, i + 1)

\* The Insert arm of the match
insertLens(bucket, cmd_label, length) ==
    LET slot == findSlot(bucket, cmd_label, 1)
    IN  IF slot /= 0
        THEN [bucket EXCEPT ![slot] = <<cmd_label, length>>]
        ELSE Append(bucket, <<cmd_label, length>>)

\* One iteration of the loop over the commands
applyCommand(bs, c) ==
    LET bucket_idx == hash(c.label)
    IN  IF c.kind = "Remove"
        THEN [bs EXCEPT ![bucket_idx] = removeLens(bs[bucket_idx], c.label)]
        ELSE [bs EXCEPT ![bucket_idx] = insertLens(bs[bucket_idx], c.label, c.length)]

\* (bucket_idx + 1) * (slot + 1) * length, summed over all lenses
focusing_power(bs) ==
    SumSeq([b \in 1..NumBuckets |->
        SumSeq([slot \in 1..Len(bs[b - 1]) |-> b * slot * bs[b - 1][slot][2]])])

Start15 ==
    /\ buckets = [b \in 0..(NumBuckets - 1) |-> <<>>]
    /\ command = NoCommand

\* The loop body of solve_part_2 on the next command of the input
RunCommand ==
    \E c \in Commands :
        /\ command' = c
        /\ buckets' = applyCommand(buckets, c)
        /\ UNCHANGED Others15

Init15 == Start15 /\ Idle19 /\ Idle20 /\ Idle14 /\ Idle12 /\ Idle17 /\ Idle16 /\ Idle8 /\ Idle25 /\ Idle18 /\ Idle21 /\ IdleMain

Next15 == RunCommand

Spec15 == Init15 /\ [][Next15]_vars

\* C2 (day 15).  What a command must do to the boxes: `label=N` replaces the
\* focal length of the lens with that label in box hash(label) in its slot, or
\* appends the lens at the end of that box when the label is absent; `label-`
\* removes the lens with that label and keeps the order of the others; every
\* other box is left as it was.
C2_Effect(old, new, c) ==
    LET b == hash(c.label)
        present == \E i \in DOMAIN old[b] : old[b][i][1] = c.label
    IN  /\ \A k \in (0..(NumBuckets - 1)) \ {b} : new[k] = old[k]
        /\ c.kind = "Insert" /\ present =>
              /\ Len(new[b]) = Len(old[b])
              /\ \A i \in DOMAIN old[b] :
                    new[b][i] = IF old[b][i][1] = c.label
                                THEN <<c.label, c.length>> ELSE old[b][i]
        /\ c.kind = "Insert" /\ ~present =>
              new[b] = old[b] \o << <<c.label, c.length>> >>
        /\ c.kind = "Remove" /\ present =>
              \E i \in DOMAIN old[b] :
                  /\ old[b][i][1] = c.label
                  /\ new[b] = SubSeq(old[b], 1, i - 1)
                                \o SubSeq(old[b], i + 1, Len(old[b]))
        /\ c.kind = "Remove" /\ ~present => new[b] = old[b]

\* C2: every command of the input has exactly that effect, after any sequence
\* of earlier commands.
C2_CommandEffect == [][C2_Effect(buckets, buckets', command')]_vars

\* C2 witness: an insert has just replaced the lens in the middle slot of a
\* box holding three lenses.
C2_Witness ==
    /\ command.kind = "Insert"
    /\ Len(buckets[hash(command.label)]) = 3
    /\ buckets[hash(command.label)][2][1] = command.label

----------------------------------------------------------------------------
(* Day 19: Aplenty (src/bin/day19.rs)                                      *)

\* Largest rating of a field: FieldRange::new() is 1..=4000 in the program
MaxRating == 3

\* Most rules a workflow has before its final destination
MaxRules == 1

PartFields == {"x", "m", "a", "s"}

\* The fields the rules of the inputs test
RuleFields == {"x", "m"}

Ratings == 1..MaxRating

\* struct Part
Parts == [PartFields -> Ratings]

NoPart == [f \in PartFields |-> 0]

\* Rule(Condition(field, comparison, value), destination); the destinations
\* "A" and "R" are Accept and Reject, any other is a workflow's name
RulesTo(dests) ==
    [field : RuleFields, comparison : {"Greater", "Less"},
     value : Ratings, destination : dests]

RuleListsTo(dests) ==
    UNION {[1..n -> RulesTo(dests)] : n \in 0..MaxRules}

WorkflowsTo(dests) == [rules : RuleListsTo(dests), final_condition : dests]

\* The workflow maps of the inputs: "in" may send parts on to "aa", "aa" only
\* accepts or rejects, so no input loops
WorkflowMaps ==
    {[name \in {"in", "aa"} |-> IF name = "in" THEN w1 ELSE w2] :
        w1 \in WorkflowsTo({"A", "R", "aa"}), w2 \in WorkflowsTo({"A", "R"})}

\* Condition::check
check(condition, p) ==
    IF condition.comparison = "Greater"
    THEN p[condition.field] > condition.value
    ELSE p[condition.field] < condition.value

\* The first rule from rule i on whose condition the part meets decides the
\* destination, the final condition otherwise
RECURSIVE ruleDestination(_, _, _)
ruleDestination(p, workflow, i) ==
    IF i > Len(workflow.rules) THEN workflow.final_condition
    ELSE IF check(workflow.rules[i], p) THEN workflow.rules[i].destination
    ELSE ruleDestination(p, workflow, i + 1)

\* The loop of check_part from workflow `name` on
RECURSIVE checkFrom(_, _, _)
checkFrom(p, workflow_map, name) ==
    LET destination == ruleDestination(p, workflow_map[name], 1)
    IN  CASE destination = "A" -> TRUE
          [] destination = "R" -> FALSE
          [] OTHER -> checkFrom(p, workflow_map, destination)

check_part(p, workflow_map) == checkFrom(p, workflow_map, "in")

\* PartRanges::new()
NewPartRanges == [f \in PartFields |-> [min |-> 1, max |-> MaxRating]]

\* FieldRange::range
range_len(r) == r.max - r.min + 1

\* PartRanges::possible_combinations
possible_combinations(range) ==
    range_len(range["x"]) * range_len(range["m"])
        * range_len(range["a"]) * range_len(range["s"])

\* find_possible_combinations from rule i of a workflow on, with the count so
\* far, and check_next_destination
RECURSIVE findFrom(_, _, _, _, _)
RECURSIVE check_next_destination(_, _, _)
findFrom(range, workflow, i, count, workflow_map) ==
    IF i > Len(workflow.rules)
    THEN count + check_next_destination(range, workflow.final_condition, workflow_map)
    ELSE
      LET rule == workflow.rules[i]
          field == rule.field
          value == rule.value
      IN  IF rule.comparison = "Greater"
          THEN LET taken == IF range[field].max > value
                            THEN check_next_destination(
                                     [range EXCEPT ![field].min = value + 1],
                                     rule.destination, workflow_map)
                            ELSE 0
               IN  IF range[field].min > value
                   THEN count + taken
                   ELSE findFrom([range EXCEPT ![field].max = value],
                                 workflow, i + 1, count + taken, workflow_map)
          ELSE LET taken == IF range[field].min < value
                            THEN check_next_destination(
                                     [range EXCEPT ![field].max = value - 1],
                                     rule.destination, workflow_map)
                            ELSE 0
               IN  IF range[field].max < value
                   THEN count + taken
                   ELSE findFrom([range EXCEPT ![field].min = value],
                                 workflow, i + 1, count + taken, workflow_map)

check_next_destination(range, destination, workflow_map) ==
    CASE destination = "A" -> possible_combinations(range)
      [] destination = "R" -> 0
      [] OTHER -> findFrom(range, workflow_map[destination], 1, 0, workflow_map)

find_possible_combinations(range, workflow, workflow_map) ==
    findFrom(range, workflow, 1, 0, workflow_map)

Start19 ==
    /\ workflows \in WorkflowMaps
    /\ part = NoPart
    /\ accepted = FALSE
    /\ combinations = -1
    /\ pc19 = "parsed"

\* Part 1 on one part of the input: check_part
CheckPart ==
    /\ pc19 = "parsed"
    /\ \E p \in Parts :
        /\ part' = p
        /\ accepted' = check_part(p, workflows)
    /\ pc19' = "part1"
    /\ UNCHANGED <<workflows, combinations>>
    /\ UNCHANGED Others19

\* solve_part_2
SolvePart2 ==
    /\ pc19 = "parsed"
    /\ combinations' =
           find_possible_combinations(NewPartRanges, workflows["in"], workflows)
    /\ pc19' = "part2"
    /\ UNCHANGED <<workflows, part, accepted>>
    /\ UNCHANGED Others19

Init19 == Start19 /\ Idle15 /\ Idle20 /\ Idle14 /\ Idle12 /\ Idle17 /\ Idle16 /\ Idle8 /\ Idle25 /\ Idle18 /\ Idle21 /\ IdleMain

Next19 == CheckPart \/ SolvePart2

Spec19 == Init19 /\ [][Next19]_vars

\* C1 (day 19): for every loop-free workflow map, solve_part_2 returns
\* exactly the number of (x, m, a, s) combinations that check_part accepts.
C1_Part2CountsAccepted ==
    pc19 = "part2" =>
        combinations = Cardinality({p \in Parts : check_part(p, workflows)})

----------------------------------------------------------------------------
(* Day 20: Pulse Propagation (src/bin/day20.rs)                            *)

\* Button presses of solve_part_1: 1000 in the program
NumPresses == 3

\* Pulses of one press the model keeps a record of: a press that handles
\* more is followed on, its record left as it is, and does not return
MaxPulses == 12

\* Pulses the queue may hold: the model stops at a push that goes beyond
MaxQueue == 8

\* Names of the modules an input may define
ModuleNames == {"a", "b"}

\* Names an output list may hold: the modules and an undefined destination
DestNames == ModuleNames \cup {"rx"}

\* parse_outputs: one or two destinations
OutputLists ==
    {<<x>> : x \in DestNames} \cup {<<x, y>> : x \in DestNames, y \in DestNames}

\* An input line per module name: a flip-flop, a conjunction, or no line
InputNodes ==
    [kind : {"FlipFlop", "Conjunction"}, outputs : OutputLists]
    \cup {[kind |-> "none", outputs |-> <<>>]}

\* Input: the broadcaster's outputs and the module lines
Inputs20 == [broadcaster : OutputLists, nodes : [ModuleNames -> InputNodes]]

Defined(input) == {n \in ModuleNames : input.nodes[n].kind /= "none"}

\* name_to_inputs of build_node_map: who lists `name` among its outputs
name_to_inputs(input, name) ==
    {n \in Defined(input) : name \in Range(input.nodes[n].outputs)}
    \cup (IF name \in Range(input.broadcaster) THEN {"broadcaster"} ELSE {})

\* build_node_map: flip-flops start off, conjunctions remember Low for every
\* input
build_node_map(input) ==
    [n \in Defined(input) |->
        [kind |-> input.nodes[n].kind,
         on |-> FALSE,
         inputs |-> IF input.nodes[n].kind = "Conjunction"
                    THEN [i \in name_to_inputs(input, n) |-> "Low"]
                    ELSE <<>>,
         outputs |-> input.nodes[n].outputs]]

\* PulseCount::from_vec
RECURSIVE countPulses(_, _)
countPulses(pulses, kind) ==
    IF pulses = <<>> THEN 0
    ELSE (IF Head(pulses)[3] = kind THEN 1 ELSE 0) + countPulses(Tail(pulses), kind)

from_vec(pulses) ==
    [low |-> countPulses(pulses, "Low"), high |-> countPulses(pulses, "High")]

\* The pulses a module pushes: one per output, in order
pushes(from, outputs, pulse) == [i \in 1..Len(outputs) |-> <<from, outputs[i], pulse>>]

\* What a defined node does with a pulse: its new state and what it pushes
receive(node, input_name, output_name, pulse) ==
    IF node.kind = "FlipFlop"
    THEN IF pulse = "Low"
         THEN [node |-> [node EXCEPT !.on = ~node.on],
               out |-> pushes(output_name, node.outputs,
                              IF node.on THEN "Low" ELSE "High")]
         ELSE [node |-> node, out |-> <<>>]
    ELSE LET inputs == [node.inputs EXCEPT ![input_name] = pulse]
             out_pulse == IF \A i \in DOMAIN inputs : inputs[i] = "High"
                          THEN "Low" ELSE "High"
         IN  [node |-> [node EXCEPT !.inputs = inputs],
              out |-> pushes(output_name, node.outputs, out_pulse)]

\* A recording that skips the pulses whose destination is no defined module
record_pulseDefinedOnly(pulses, p) ==
    IF p[2] \in DOMAIN node_map \cup {"broadcaster"} THEN Append(pulses, p) ELSE pulses

\* The pulse is recorded whether or not its destination is a defined module
record_pulse(pulses, p) == Append(pulses, p)

Start20 ==
    /\ \E input \in Inputs20 :
        /\ broadcaster = input.broadcaster
        /\ node_map = build_node_map(input)
    /\ pulse_queue = <<>>
    /\ all_pulses = <<>>
    /\ pulse_count = [low |-> 0, high |-> 0]
    /\ presses = 0
    /\ result20 = -1
    /\ pc20 = "loop"
    /\ sent = [low |-> 0, high |-> 0]

addSent(s, pulses) ==
    [low |-> s.low + countPulses(pulses, "Low"),
     high |-> s.high + countPulses(pulses, "High")]

\* send_pulse is entered: the broadcaster's outputs are queued and the
\* button's low pulse to the broadcaster is recorded
Press ==
    /\ pc20 = "loop"
    /\ presses < NumPresses
    /\ pulse_queue' = pushes("broadcaster", broadcaster, "Low")
    /\ all_pulses' = <<<<"", "broadcaster", "Low">>>>
    /\ sent' = addSent(sent, <<<<"", "broadcaster", "Low">>>>
                             \o pushes("broadcaster", broadcaster, "Low"))
    /\ pc20' = "sending"
    /\ UNCHANGED <<broadcaster, node_map, pulse_count, presses, result20>>
    /\ UNCHANGED Others20

\* One iteration of send_pulse's while loop
Deliver ==
    /\ pc20 = "sending"
    /\ pulse_queue /= <<>>
    /\ LET p == Head(pulse_queue)
           input_name == p[1]
           output_name == p[2]
           recorded == Len(all_pulses) <= MaxPulses
           out == IF output_name \in DOMAIN node_map
                  THEN receive(node_map[output_name], input_name,
                               output_name, p[3]).out
                  ELSE <<>>
       IN  /\ Len(Tail(pulse_queue) \o out) <= MaxQueue
           /\ all_pulses' = IF recorded THEN record_pulse(all_pulses, p)
                            ELSE all_pulses
           /\ IF output_name \in DOMAIN node_map
              THEN LET r == receive(node_map[output_name], input_name,
                                    output_name, p[3])
                   IN  /\ node_map' = [node_map EXCEPT ![output_name] = r.node]
                       /\ pulse_queue' = Tail(pulse_queue) \o r.out
                       /\ sent' = IF recorded THEN addSent(sent, r.out) ELSE sent
              ELSE /\ node_map' = node_map
                   /\ pulse_queue' = Tail(pulse_queue)
                   /\ sent' = sent
    /\ UNCHANGED <<broadcaster, pulse_count, presses, result20, pc20>>
    /\ UNCHANGED Others20

\* send_pulse returns and solve_part_1 adds the press's counts
Return ==
    /\ pc20 = "sending"
    /\ pulse_queue = <<>>
    /\ Len(all_pulses) <= MaxPulses
    /\ pulse_count' = [low |-> pulse_count.low + from_vec(all_pulses).low,
                       high |-> pulse_count.high + from_vec(all_pulses).high]
    /\ presses' = presses + 1
    /\ all_pulses' = <<>>
    /\ pc20' = "loop"
    /\ UNCHANGED <<broadcaster, node_map, pulse_queue, result20, sent>>
    /\ UNCHANGED Others20

\* After the last press: pulse_count.low * pulse_count.high
Finish20 ==
    /\ pc20 = "loop"
    /\ presses = NumPresses
    /\ result20' = pulse_count.low * pulse_count.high
    /\ pc20' = "done"
    /\ UNCHANGED <<broadcaster, node_map, pulse_queue, all_pulses, pulse_count,
                   presses, sent>>
    /\ UNCHANGED Others20

Init20 == Start20 /\ Idle15 /\ Idle19 /\ Idle14 /\ Idle12 /\ Idle17 /\ Idle16 /\ Idle8 /\ Idle25 /\ Idle18 /\ Idle21 /\ IdleMain

Next20 == Press \/ Deliver \/ Return \/ Finish20

Spec20 == Init20 /\ [][Next20]_vars

\* C3 (day 20), counting: between presses the running PulseCount equals the
\* pulses sent so far (each button press's low pulse to the broadcaster and
\* every pulse a module or the broadcaster sent, whatever its destination),
\* and solve_part_1 returns low x high of those after NumPresses presses.
C3_Counts ==
    /\ pc20 = "loop" => pulse_count = sent
    /\ pc20 = "done" =>
          /\ presses = NumPresses
          /\ result20 = sent.low * sent.high

\* C3 (day 20), carry-over: entering send_pulse for the next press leaves
\* every flip-flop's on/off state and every conjunction's memory as the
\* previous press left them.
C3_CarryOver == (pc20 = "loop" /\ pc20' = "sending") => node_map' = node_map

\* C3: solve_part_1 returns (low pulses) x (high pulses) sent over all
\* presses, counting the button's pulse and the pulses to undefined
\* destinations, with module state carried from press to press.
C3_PulseProduct == [](C3_Counts) /\ [][C3_CarryOver]_vars

\* C3 witness: solve_part_1 has returned for an input whose broadcaster feeds
\* an undefined destination and in which a flip-flop is left on by the
\* presses, high pulses having been sent.
C3_Witness ==
    /\ pc20 = "done"
    /\ "rx" \in Range(broadcaster)
    /\ \E n \in DOMAIN node_map :
         node_map[n].kind = "FlipFlop" /\ node_map[n].on
    /\ sent.high > 0
    /\ result20 > 0

\* The while loop of send_pulse runs on while the queue holds a pulse
Spec20Fair == Spec20 /\ WF_vars(Deliver)

\* The queue as the next pass of the loop leaves it
next_queue ==
    LET p == Head(pulse_queue)
    IN  IF p[2] \in DOMAIN node_map
        THEN Tail(pulse_queue) \o receive(node_map[p[2]], p[1], p[2], p[3]).out
        ELSE Tail(pulse_queue)

\* The press is one the model stops following: the queue outgrows MaxQueue
QueueOutgrows ==
    /\ pc20 = "sending"
    /\ pulse_queue /= <<>>
    /\ Len(next_queue) > MaxQueue

\* C15 (day 20): send_pulse terminates for every configuration the parser
\* accepts, feedback among the modules included: in every press that the
\* model follows to its end, the pulse queue is empty after finitely many
\* passes of the loop.
C15_QueueEmpties == (pc20 = "sending") ~> (pulse_queue = <<>> \/ QueueOutgrows)

\* The modules a pulse from module n can come to, over one or more outputs
RECURSIVE ReachedFrom(_, _)
ReachedFrom(names, k) ==
    IF k = 0 THEN names
    ELSE ReachedFrom(names \cup UNION {Range(node_map[n].outputs) : n \in names \cap DOMAIN node_map}, k - 1)

FeedsBack(n) ==
    n \in ReachedFrom(Range(node_map[n].outputs), Cardinality(DOMAIN node_map))

NoFeedback == \A n \in DOMAIN node_map : ~FeedsBack(n)

\* C15 without feedback: where no module's output comes back to the module,
\* every press empties the queue.
NoFeedbackQueueEmpties == NoFeedback => ((pc20 = "sending") ~> (pulse_queue = <<>>))

----------------------------------------------------------------------------
(* Day 14: Parabolic Reflector Dish (src/bin/day14.rs)                     *)

\* Spin cycles asked for: 1_000_000_000 in the program
TotalCycles == 11

\* Most round rocks and most cube rocks of an input grid
MaxRound == 3
MaxCube == 2

\* Row and column indices of the input grids
RowIdx14 == {0, 1, 2}
ColIdx14 == {0, 1, 2}

\* enum Rock { None, Round, Cube } as the input's characters
Rocks == {".", "O", "#"}

count_of(g, rock) ==
    Cardinality({pos \in RowIdx14 \X ColIdx14 : g[pos[1]][pos[2]] = rock})

\* parse_input: the grids of the inputs
Grids14 ==
    {g \in [RowIdx14 -> [ColIdx14 -> Rocks]] :
        count_of(g, "O") <= MaxRound /\ count_of(g, "#") <= MaxCube}

rows14(g) == Cardinality(DOMAIN g)
cols14(g) == Cardinality(DOMAIN g[0])

\* The while loop of shift: slide from (ii, jj) while the next cell is inside
\* the grid and empty
RECURSIVE slide(_, _, _, _, _)
slide(g, ii, jj, di, dj) ==
    IF /\ ii + di \in 0..(rows14(g) - 1)
       /\ jj + dj \in 0..(cols14(g) - 1)
       /\ g[ii + di][jj + dj] = "."
    THEN slide(g, ii + di, jj + dj, di, dj)
    ELSE <<ii, jj>>

\* shift: the positions in the given order, each round rock moved as far as
\* it goes
RECURSIVE shift(_, _, _, _)
shift(g, positions, di, dj) ==
    IF positions = <<>> THEN g
    ELSE LET i == Head(positions)[1]
             j == Head(positions)[2]
         IN  IF g[i][j] /= "O" THEN shift(g, Tail(positions), di, dj)
             ELSE LET to == slide(g, i, j, di, dj)
                      cleared == [g EXCEPT ![i][j] = "."]
                      moved == [cleared EXCEPT ![to[1]][to[2]] = "O"]
                  IN  shift(moved, Tail(positions), di, dj)

\* (0..rows).flat_map(|i| (0..cols).map(move |j| (i, j))) and its variants,
\* as sequences; rev says whether the outer index runs backwards
rowMajor(g, rev) ==
    [k \in 1..(rows14(g) * cols14(g)) |->
        LET i == (k - 1) \div cols14(g)
            j == (k - 1) % cols14(g)
        IN  <<IF rev THEN rows14(g) - 1 - i ELSE i, j>>]

colMajor(g, rev) ==
    [k \in 1..(rows14(g) * cols14(g)) |->
        LET j == (k - 1) \div rows14(g)
            i == (k - 1) % rows14(g)
        IN  <<i, IF rev THEN cols14(g) - 1 - j ELSE j>>]

shift_north(g) == shift(g, rowMajor(g, FALSE), -1, 0)
shift_west(g) == shift(g, colMajor(g, FALSE), 0, -1)
shift_south(g) == shift(g, rowMajor(g, TRUE), 1, 0)
shift_east(g) == shift(g, colMajor(g, TRUE), 0, 1)

\* The four shifts of one loop iteration
spin(g) == shift_east(shift_south(shift_west(shift_north(g))))

\* count_north_weight
count_north_weight(g) ==
    SumSeq([k \in 1..(rows14(g) * cols14(g)) |->
        LET i == (k - 1) \div cols14(g)
            j == (k - 1) % cols14(g)
        IN  IF g[i][j] = "O" THEN rows14(g) - i ELSE 0])

\* recorded_grids.get(&grid): the cycle the grid was recorded at, -1 if none
prev_cycle_of(recorded, g) ==
    IF \E k \in DOMAIN recorded : recorded[k] = g
    THEN (CHOOSE k \in DOMAIN recorded : recorded[k] = g) - 1
    ELSE -1

\* A target computed without taking the loop's start off the cycles asked for
target_cycleNoOffset(prev_cycle, cycle) ==
    prev_cycle + (TotalCycles % (cycle - prev_cycle))

\* prev_cycle + ((1_000_000_000 - prev_cycle) % (cycle - prev_cycle))
target_cycle(prev_cycle, cycle) ==
    prev_cycle + ((TotalCycles - prev_cycle) % (cycle - prev_cycle))

Start14 ==
    /\ input14 \in Grids14
    /\ grid14 = input14
    /\ recorded_grids = <<>>
    /\ cycle14 = 0
    /\ result14 = -1
    /\ pc14 = "loop"

\* A loop iteration that finds the grid unrecorded: record it and spin
SpinCycle ==
    /\ pc14 = "loop"
    /\ prev_cycle_of(recorded_grids, grid14) = -1
    /\ recorded_grids' = Append(recorded_grids, grid14)
    /\ grid14' = spin(grid14)
    /\ cycle14' = cycle14 + 1
    /\ UNCHANGED <<input14, result14, pc14>>
    /\ UNCHANGED Others14

\* The loop iteration that finds the grid recorded: return the north weight
\* of the grid recorded at the target cycle
FoundLoop ==
    /\ pc14 = "loop"
    /\ prev_cycle_of(recorded_grids, grid14) /= -1
    /\ LET prev_cycle == prev_cycle_of(recorded_grids, grid14)
           target == target_cycle(prev_cycle, cycle14)
       IN  \* the u64 subtraction does not underflow
           /\ prev_cycle <= TotalCycles
           /\ result14' = count_north_weight(recorded_grids[target + 1])
    /\ pc14' = "done"
    /\ UNCHANGED <<input14, grid14, recorded_grids, cycle14>>
    /\ UNCHANGED Others14

Init14 == Start14 /\ Idle15 /\ Idle19 /\ Idle20 /\ Idle12 /\ Idle17 /\ Idle16 /\ Idle8 /\ Idle25 /\ Idle18 /\ Idle21 /\ IdleMain

Next14 == SpinCycle \/ FoundLoop

Spec14 == Init14 /\ [][Next14]_vars

\* The grid after n spin cycles, one cycle after the other
RECURSIVE SpinTimes(_, _)
SpinTimes(g, n) ==
    IF n = 0 \/ DOMAIN g = {} THEN g ELSE SpinTimes(spin(g), n - 1)

\* C4 (day 14): when the grid before cycle L equals the grid recorded before
\* cycle S, the grid recorded at S + ((TotalCycles - S) % (L - S)) is the
\* grid after exactly TotalCycles spin cycles, and solve_part_2 returns that
\* grid's north load.
C4_TargetGrid ==
    pc14 = "done" =>
        LET S == prev_cycle_of(recorded_grids, grid14)
            target == S + ((TotalCycles - S) % (cycle14 - S))
            final == SpinTimes(input14, TotalCycles)
        IN  /\ recorded_grids[target + 1] = final
            /\ result14 = count_north_weight(final)

\* C4 witness: solve_part_2 has returned for a grid whose loop starts after
\* the first cycle and is longer than one cycle, with round rocks to weigh.
C4_Witness ==
    /\ pc14 = "done"
    /\ prev_cycle_of(recorded_grids, grid14) >= 1
    /\ cycle14 - prev_cycle_of(recorded_grids, grid14) >= 2
    /\ result14 > 0

----------------------------------------------------------------------------
(* Day 12: Hot Springs (src/bin/day12.rs)                                  *)

\* Longest row of springs and most damage groups of an input line
MaxSprings == 6
MaxGroups == 3

\* Sizes a damage group of the input may have: parse_u32 takes any number
GroupSizes == {0, 1, 2}

\* enum Spring { Operational, Damaged, Unknown } as the input's characters
Springs == {".", "#", "?"}

\* parse_springs: one spring or more
SpringRows == UNION {[1..n -> Springs] : n \in 1..MaxSprings}

\* parse_damage_groups: one group or more
GroupLists == UNION {[1..n -> GroupSizes] : n \in 1..MaxGroups}

\* initial_remaining_required
initial_remaining_required(groups) == SumSeq(groups) + Len(groups) - 1

\* damage_group_fits, i counted from 0 as in the program
damage_group_fits(springs, i, group) ==
    LET no_damage_after ==
            i + group = Len(springs) \/ springs[i + group + 1] /= "#"
    IN  /\ no_damage_after
        /\ \A k \in (i + 1)..(i + group) : springs[k] /= "."

\* A cache key that leaves out the number of damage groups remaining
CacheKeySpringsOnly(springs, damage_groups) == <<Len(springs), 0>>

\* CacheKey::new
CacheKey(springs, damage_groups) == <<Len(springs), Len(damage_groups)>>

\* usize::saturating_sub
saturating_sub(a, b) == IF a >= b THEN a - b ELSE 0

\* count_inner and its for loop from position i on (count so far, cache so
\* far); both give the count and the cache they leave
RECURSIVE count_inner(_, _, _, _)
RECURSIVE countLoop(_, _, _, _, _, _)
count_inner(springs, damage_groups, remaining_required, cache) ==
    IF remaining_required = 0
    THEN [count |-> IF \E k \in DOMAIN springs : springs[k] = "#" THEN 0 ELSE 1,
          cache |-> cache]
    ELSE LET cache_key == CacheKey(springs, damage_groups)
         IN  IF cache_key \in DOMAIN cache
             THEN [count |-> cache[cache_key], cache |-> cache]
             ELSE LET r == countLoop(springs, damage_groups,
                                     remaining_required, 0, 0, cache)
                  IN  [count |-> r.count,
                       cache |-> (cache_key :> r.count) @@ r.cache]

countLoop(springs, damage_groups, remaining_required, i, count, cache) ==
    IF i > Len(springs) - remaining_required
    THEN [count |-> count, cache |-> cache]
    ELSE
      LET group == damage_groups[1]
          r == IF damage_group_fits(springs, i, group)
               THEN IF /\ Len(damage_groups) = 1
                       /\ i = Len(springs) - remaining_required
                    THEN [count |-> count + 1, cache |-> cache]
                    ELSE LET sub == count_inner(
                                 SubSeq(springs, i + group + 2, Len(springs)),
                                 Tail(damage_groups),
                                 saturating_sub(remaining_required, group + 1),
                                 cache)
                         IN  [count |-> count + sub.count, cache |-> sub.cache]
               ELSE [count |-> count, cache |-> cache]
      IN  IF springs[i + 1] = "#"
          THEN r
          ELSE countLoop(springs, damage_groups, remaining_required,
                         i + 1, r.count, r.cache)

\* The assertion of count_unique_arrangements
groups_fit(springs, damage_groups) ==
    initial_remaining_required(damage_groups) <= Len(springs)

Start12 ==
    /\ springs12 \in SpringRows
    /\ groups12 \in GroupLists
    /\ result12 = -1
    /\ cache12 = <<>>
    /\ pc12 = "parsed"

\* count_unique_arrangements when its assertion holds
CountArrangements ==
    /\ pc12 = "parsed"
    /\ groups_fit(springs12, groups12)
    /\ LET r == count_inner(springs12, groups12,
                            initial_remaining_required(groups12), <<>>)
       IN  /\ result12' = r.count
           /\ cache12' = r.cache
    /\ pc12' = "returned"
    /\ UNCHANGED <<springs12, groups12>>
    /\ UNCHANGED Others12

\* count_unique_arrangements when its assertion fails: the program panics
AssertFails12 ==
    /\ pc12 = "parsed"
    /\ ~groups_fit(springs12, groups12)
    /\ pc12' = "panicked"
    /\ UNCHANGED <<springs12, groups12, result12, cache12>>
    /\ UNCHANGED Others12

Init12 == Start12 /\ Idle15 /\ Idle19 /\ Idle20 /\ Idle14 /\ Idle17 /\ Idle16 /\ Idle8 /\ Idle25 /\ Idle18 /\ Idle21 /\ IdleMain

Next12 == CountArrangements \/ AssertFails12

Spec12 == Init12 /\ [][Next12]_vars

\* The rows that replace every unknown spring by an operational or a damaged
\* one
Replacements(springs) ==
    {a \in [DOMAIN springs -> {".", "#"}] :
        \A k \in DOMAIN springs : springs[k] /= "?" => a[k] = springs[k]}

\* The lengths of the maximal runs of damaged springs, left to right; run is
\* the length of the run that ends just before position k
RECURSIVE RunLengths(_, _, _)
RunLengths(a, k, run) ==
    IF k > Len(a) THEN (IF run > 0 THEN <<run>> ELSE <<>>)
    ELSE IF a[k] = "#" THEN RunLengths(a, k + 1, run + 1)
    ELSE (IF run > 0 THEN <<run>> ELSE <<>>) \o RunLengths(a, k + 1, 0)

ArrangementCount(springs, groups) ==
    Cardinality({a \in Replacements(springs) : RunLengths(a, 1, 0) = groups})

\* count_inner without the cache: every call computes its count afresh
RECURSIVE CountPlain(_, _, _)
RECURSIVE CountPlainLoop(_, _, _, _)
CountPlain(springs, groups, rr) ==
    IF rr = 0
    THEN (IF \E k \in DOMAIN springs : springs[k] = "#" THEN 0 ELSE 1)
    ELSE CountPlainLoop(springs, groups, rr, 0)

CountPlainLoop(springs, groups, rr, i) ==
    IF i > Len(springs) - rr THEN 0
    ELSE LET here ==
                 IF damage_group_fits(springs, i, groups[1])
                 THEN IF Len(groups) = 1 /\ i = Len(springs) - rr THEN 1
                      ELSE CountPlain(SubSeq(springs, i + groups[1] + 2, Len(springs)),
                                      Tail(groups),
                                      saturating_sub(rr, groups[1] + 1))
                 ELSE 0
         IN  here + (IF springs[i + 1] = "#" THEN 0
                     ELSE CountPlainLoop(springs, groups, rr, i + 1))

\* C5 (day 12) as claimed: for every row and every list of groups,
\* count_unique_arrangements returns the number of replacements whose runs of
\* damaged springs are exactly the groups.
C5_AsClaimed ==
    pc12 /= "parsed" =>
        /\ pc12 = "returned"
        /\ result12 = ArrangementCount(springs12, groups12)

\* C5 (day 12) as amended: when the groups fit the row (the function's own
\* assertion) and no group is empty, count_unique_arrangements returns the
\* number of replacements whose runs of damaged springs are exactly the
\* groups; and whenever it returns, the cache has not changed the result.
C5_CountsArrangements ==
    pc12 /= "parsed" =>
        /\ pc12 = "returned" <=> groups_fit(springs12, groups12)
        /\ pc12 = "returned" =>
              result12 = CountPlain(springs12, groups12,
                                    initial_remaining_required(groups12))
        /\ (pc12 = "returned" /\ \A k \in DOMAIN groups12 : groups12[k] >= 1) =>
              result12 = ArrangementCount(springs12, groups12)

\* C5 witness: the function has returned a count above one for three
\* non-empty groups, having answered a call from the cache: two entries with
\* three groups in all would not fit the row otherwise.
C5_Witness ==
    /\ pc12 = "returned"
    /\ Len(groups12) = 3
    /\ \A k \in DOMAIN groups12 : groups12[k] >= 1
    /\ result12 >= 2
    /\ springs12 = [k \in 1..6 |-> "?"]
----------------------------------------------------------------------------
(* Day 17: Clumsy Crucible (src/bin/day17.rs)                              *)

\* Small maps: every map of up to MaxRows17 rows and MaxCols17 columns with
\* heat losses taken from HeatValues
MaxRows17 == 2
MaxCols17 == 5
HeatValues == {1, 2}

\* Wide maps: WideRows rows and WideCols columns; a cell loses 2, less 1 for
\* standing in the cheap row and less 1 for standing in the cheap column
WideRows == 5
WideCols == 12

SmallMaps ==
    UNION {[1..r -> [1..c -> HeatValues]] : r \in 1..MaxRows17, c \in 1..MaxCols17}

WideMaps ==
    {[i \in 1..WideRows |-> [j \in 1..WideCols |->
          (IF i = cr THEN 0 ELSE 1) + (IF j = cc THEN 0 ELSE 1)]] :
       cr \in 0..WideRows, cc \in 0..WideCols}

\* enum Direction
Directions17 == {"Up", "Left", "Right", "Down"}

\* Direction::di_dj
di_dj(d) ==
    CASE d = "Up" -> <<-1, 0>>
      [] d = "Down" -> <<1, 0>>
      [] d = "Left" -> <<0, -1>>
      [] d = "Right" -> <<0, 1>>

\* Direction::rotate_left
rotate_left(d) ==
    CASE d = "Up" -> "Left"
      [] d = "Left" -> "Down"
      [] d = "Down" -> "Right"
      [] d = "Right" -> "Up"

\* Direction::rotate_right (the first arm that matches)
rotate_right(d) ==
    CASE d = "Up" -> "Right"
      [] d = "Right" -> "Down"
      [] d = "Down" -> "Left"
      [] d = "Left" -> "Up"

check_end_part_1(consecutive_moves) == TRUE

check_end_part_2(consecutive_moves) == consecutive_moves >= 4

check_direction_part_1(is_straight, consecutive_moves) ==
    ~(is_straight /\ consecutive_moves = 3)

check_direction_part_2(is_straight, consecutive_moves) ==
    ~((is_straight /\ consecutive_moves = 10)
        \/ (~is_straight /\ consecutive_moves < 4))

\* The closures solve_part_1 and solve_part_2 hand to solve
check_end(p, consecutive_moves) ==
    IF p = 1 THEN check_end_part_1(consecutive_moves)
    ELSE check_end_part_2(consecutive_moves)

check_direction(p, is_straight, consecutive_moves) ==
    IF p = 1 THEN check_direction_part_1(is_straight, consecutive_moves)
    ELSE check_direction_part_2(is_straight, consecutive_moves)

\* map[i][j] with the program's indices, which start at 0
heat_at(map, i, j) == map[i + 1][j + 1]

map_rows(map) == Len(map)
map_cols(map) == Len(map[1])

HeapEntry(i, j, direction, consecutive_moves, heat_loss) ==
    [i |-> i, j |-> j, direction |-> direction,
     consecutive_moves |-> consecutive_moves, heat_loss |-> heat_loss]

VisitedKey(i, j, direction, consecutive_moves) ==
    <<i, j, direction, consecutive_moves>>

\* The body of the loop over new_direction: hp is the heap and vis the
\* visited map, e the entry that was popped
try_direction(map, p, e, new_direction, hp, vis) ==
    LET is_straight == new_direction = e.direction
        new_i == e.i + di_dj(new_direction)[1]
        new_j == e.j + di_dj(new_direction)[2]
    IN
    IF ~check_direction(p, is_straight, e.consecutive_moves)
    THEN [heap |-> hp, visited |-> vis]
    ELSE IF ~(new_i \in 0..(map_rows(map) - 1))
              \/ ~(new_j \in 0..(map_cols(map) - 1))
    THEN [heap |-> hp, visited |-> vis]
    ELSE
      LET new_heat_loss == e.heat_loss + heat_at(map, new_i, new_j)
          new_consecutive_moves ==
              IF is_straight THEN e.consecutive_moves + 1 ELSE 1
          visited_key ==
              VisitedKey(new_i, new_j, new_direction, new_consecutive_moves)
      IN  IF visited_key \in DOMAIN vis /\ vis[visited_key] <= new_heat_loss
          THEN [heap |-> hp, visited |-> vis]
          ELSE [heap |-> hp \cup {HeapEntry(new_i, new_j, new_direction,
                                            new_consecutive_moves, new_heat_loss)},
                visited |-> (visited_key :> new_heat_loss) @@ vis]

\* for new_direction in [direction, rotate_left, rotate_right]
expand(map, p, e, hp, vis) ==
    LET s1 == try_direction(map, p, e, e.direction, hp, vis)
        s2 == try_direction(map, p, e, rotate_left(e.direction),
                            s1.heap, s1.visited)
    IN  try_direction(map, p, e, rotate_right(e.direction), s2.heap, s2.visited)

\* The order of HeapEntry compares heat_loss alone, and BinaryHeap promises no
\* order among entries that compare equal.  pop_order is how the run breaks
\* such ties: "any" (every minimal entry may come out), or the first or the
\* last minimal entry in the order of rank.
rank(map, e) ==
    LET dn == CASE e.direction = "Up" -> 0 [] e.direction = "Left" -> 1
                [] e.direction = "Right" -> 2 [] e.direction = "Down" -> 3
    IN  ((e.i * map_cols(map) + e.j) * 4 + dn) * 16 + e.consecutive_moves

poppable(map, hp, order) ==
    LET least == {e \in hp : \A f \in hp : e.heat_loss <= f.heat_loss}
    IN  CASE order = "any" -> least
          [] order = "first" ->
                {e \in least : \A f \in least : rank(map, e) <= rank(map, f)}
          [] order = "last" ->
                {e \in least : \A f \in least : rank(map, e) >= rank(map, f)}

Start17 ==
    /\ part17 \in {1, 2}
    /\ \/ map17 \in SmallMaps /\ pop_order = "any"
       \/ part17 = 2 /\ map17 \in WideMaps /\ pop_order \in {"first", "last"}
    /\ heap17 = {}
    /\ visited17 = <<>>
    /\ result17 = -1
    /\ pc17 = "parsed"

\* solve up to its loop: the two entries it starts from
Seed17 ==
    /\ pc17 = "parsed"
    /\ map_rows(map17) >= 2
    /\ map_cols(map17) >= 2
    /\ heap17' = {HeapEntry(1, 0, "Down", 1, heat_at(map17, 1, 0)),
                  HeapEntry(0, 1, "Right", 1, heat_at(map17, 0, 1))}
    /\ visited17' = (VisitedKey(1, 0, "Down", 1) :> heat_at(map17, 1, 0))
                    @@ (VisitedKey(0, 1, "Right", 1) :> heat_at(map17, 0, 1))
    /\ pc17' = "search"
    /\ UNCHANGED <<map17, part17, pop_order, result17>>
    /\ UNCHANGED Others17

\* map[1][0] or map[0][1] is out of range: the index panics
SeedPanics17 ==
    /\ pc17 = "parsed"
    /\ map_rows(map17) < 2 \/ map_cols(map17) < 2
    /\ pc17' = "panicked"
    /\ UNCHANGED <<map17, part17, pop_order, heap17, visited17, result17>>
    /\ UNCHANGED Others17

\* An iteration of the loop that returns
Return17 ==
    /\ pc17 = "search"
    /\ \E e \in poppable(map17, heap17, pop_order) :
          /\ e.i = map_rows(map17) - 1
          /\ e.j = map_cols(map17) - 1
          /\ check_end(part17, e.consecutive_moves)
          /\ result17' = e.heat_loss
    \* the heap and the visited map go out of scope
    /\ heap17' = {}
    /\ visited17' = <<>>
    /\ pc17' = "returned"
    /\ UNCHANGED <<map17, part17, pop_order>>
    /\ UNCHANGED Others17

\* An iteration of the loop that goes on
Expand17 ==
    /\ pc17 = "search"
    /\ \E e \in poppable(map17, heap17, pop_order) :
          /\ ~(/\ e.i = map_rows(map17) - 1
               /\ e.j = map_cols(map17) - 1
               /\ check_end(part17, e.consecutive_moves))
          /\ LET s == expand(map17, part17, e, heap17 \ {e}, visited17)
             IN  /\ heap17' = s.heap
                 /\ visited17' = s.visited
    /\ UNCHANGED <<map17, part17, pop_order, result17, pc17>>
    /\ UNCHANGED Others17

\* The heap is empty: panic!("Never reached destination")
NeverReached17 ==
    /\ pc17 = "search"
    /\ heap17 = {}
    /\ visited17' = <<>>
    /\ pc17' = "panicked"
    /\ UNCHANGED <<map17, part17, pop_order, heap17, result17>>
    /\ UNCHANGED Others17

Init17 == Start17 /\ Idle15 /\ Idle19 /\ Idle20 /\ Idle14 /\ Idle12 /\ Idle16 /\ Idle8 /\ Idle25 /\ Idle18 /\ Idle21 /\ IdleMain

Next17 == Seed17 \/ SeedPanics17 \/ Return17 \/ Expand17 \/ NeverReached17

Spec17 == Init17 /\ [][Next17]_vars

\* The paths of the puzzle, told apart by where the crucible stands, the
\* direction of its last step and the length of the run that step belongs to
reverse17(d) ==
    CASE d = "Up" -> "Down" [] d = "Down" -> "Up"
      [] d = "Left" -> "Right" [] d = "Right" -> "Left"

LongestRun(p) == IF p = 1 THEN 3 ELSE 10
ShortestRun(p) == IF p = 1 THEN 1 ELSE 4

OnMap(map, i, j) == i \in 0..(Len(map) - 1) /\ j \in 0..(Len(map[1]) - 1)

\* The first steps of a path: one step from the top-left cell, any direction
FirstSteps(map) ==
    {<<di_dj(d)[1], di_dj(d)[2], d, 1>> : d \in
        {d \in Directions17 : OnMap(map, di_dj(d)[1], di_dj(d)[2])}}

\* The states from which one more step gives state k
StepsBefore(map, p, k) ==
    LET pi == k[1] - di_dj(k[3])[1]
        pj == k[2] - di_dj(k[3])[2]
    IN  IF ~OnMap(map, pi, pj) THEN {}
        ELSE IF k[4] > 1 THEN {<<pi, pj, k[3], k[4] - 1>>}
        ELSE {<<pi, pj, d, c>> :
                 d \in Directions17 \ {k[3], reverse17(k[3])},
                 c \in ShortestRun(p)..LongestRun(p)}

\* The states one more step leads to
StepsAfter(map, p, s) ==
    {t \in {<<s[1] + di_dj(d)[1], s[2] + di_dj(d)[2], d,
              IF d = s[3] THEN s[4] + 1 ELSE 1>> : d \in Directions17} :
        /\ OnMap(map, t[1], t[2])
        /\ t[3] /= reverse17(s[3])
        /\ t[4] <= LongestRun(p)
        /\ t[3] /= s[3] => s[4] >= ShortestRun(p)}

MinOf(S) == CHOOSE m \in S : \A n \in S : m <= n

\* The least heat loss of a path to every state a path can be in: relax
\* until nothing changes
RECURSIVE LeastLoss(_, _, _)
LeastLoss(map, p, best) ==
    LET keys == DOMAIN best \cup UNION {StepsAfter(map, p, s) : s \in DOMAIN best}
        next == [k \in keys |->
                   MinOf({best[s] + heat_at(map, k[1], k[2]) :
                             s \in StepsBefore(map, p, k) \cap DOMAIN best}
                         \cup (IF k \in DOMAIN best THEN {best[k]} ELSE {}))]
    IN  IF next = best THEN best ELSE LeastLoss(map, p, next)

\* The heat losses of the paths that end at the bottom-right cell, each state
\* at its best.  On a map of one cell the path of no steps ends there, which
\* part 2 does not count as it has no run of 4.
EndLosses(map, p) ==
    IF Len(map) = 1 /\ Len(map[1]) = 1 THEN (IF p = 1 THEN {0} ELSE {})
    ELSE LET first == FirstSteps(map)
             best == LeastLoss(map, p,
                        [s \in first |-> heat_at(map, s[1], s[2])])
         IN  {best[s] : s \in {s \in DOMAIN best :
                  /\ s[1] = Len(map) - 1
                  /\ s[2] = Len(map[1]) - 1
                  /\ s[4] >= ShortestRun(p)}}

\* C6 (day 17 part 1): on every map that has a path from the top-left to the
\* bottom-right cell which never reverses and never takes more than three
\* steps in a row in one direction, solve_part_1 returns the least total heat
\* loss of such a path, the start cell not counted.
C6_Part1LeastHeatLoss ==
    (part17 = 1 /\ pc17 \notin {"parsed", "search"}
        /\ EndLosses(map17, 1) /= {}) =>
        /\ pc17 = "returned"
        /\ result17 = MinOf(EndLosses(map17, 1))

\* C7 (day 17 part 2): on every map that has a path from the top-left to the
\* bottom-right cell whose straight runs, the last one included, are all 4 to
\* 10 steps long, solve_part_2 returns the least total heat loss of such a
\* path.
C7_Part2LeastHeatLoss ==
    (part17 = 2 /\ pc17 \notin {"parsed", "search"}
        /\ EndLosses(map17, 2) /= {}) =>
        /\ pc17 = "returned"
        /\ result17 = MinOf(EndLosses(map17, 2))

\* Where the map has two rows and two columns or more, solve does return the
\* least heat loss of either part, and it panics with "Never reached
\* destination" exactly when there is no path.
SeededMapsLeastHeatLoss ==
    (pc17 \in {"returned", "panicked"}
        /\ map_rows(map17) >= 2 /\ map_cols(map17) >= 2) =>
        IF EndLosses(map17, part17) = {}
        THEN pc17 = "panicked"
        ELSE pc17 = "returned" /\ result17 = MinOf(EndLosses(map17, part17))
----------------------------------------------------------------------------
(* Day 16: The Floor Will Be Lava (src/bin/day16.rs)                       *)

\* The grids have GridShape16[1] rows and GridShape16[2] columns, and at most
\* MaxDevices16 spaces that are not empty
GridShape16 == <<2, 3>>
MaxDevices16 == 4

\* enum Space as the input's characters
Spaces == {".", "-", "|", "/", "\\"}

Grids16 ==
    {g \in [1..GridShape16[1] -> [1..GridShape16[2] -> Spaces]] :
        Cardinality({c \in (1..GridShape16[1]) \X (1..GridShape16[2]) :
                        g[c[1]][c[2]] /= "."}) <= MaxDevices16}

\* grid[i][j] with the program's indices, which start at 0
space_at(grid, i, j) == grid[i + 1][j + 1]

\* The calls of count_energized: solve_part_1's, and solve_part_2's from every
\* edge
Starts16(grid) ==
    LET rows == Len(grid)
        cols == Len(grid[1])
    IN  {<<i, 0, "Right">> : i \in 0..(rows - 1)}
        \cup {<<i, cols - 1, "Left">> : i \in 0..(rows - 1)}
        \cup {<<0, j, "Down">> : j \in 0..(cols - 1)}
        \cup {<<rows - 1, j, "Up">> : j \in 0..(cols - 1)}

\* Direction::di_dj
di_dj16(d) ==
    CASE d = "Up" -> <<-1, 0>>
      [] d = "Down" -> <<1, 0>>
      [] d = "Left" -> <<0, -1>>
      [] d = "Right" -> <<0, 1>>

\* DirectionBits::contains, with the tile's directions kept as a plain set
\* that holds anything once the tile has been visited at all
containsAnyDirection(bits, direction) == bits /= {}

\* DirectionBits::contains: the bits as the set of directions that are set
contains(bits, direction) == direction \in bits

\* DirectionBits::set
set_bit(bits, direction) == bits \cup {direction}

\* DirectionBits::is_empty
is_empty(bits) == bits = {}

\* The condition under which visit returns at once
visit_returns(grid, visited, i, j, direction) ==
    IF ~(i \in 0..(Len(grid) - 1)) THEN TRUE
    ELSE IF ~(j \in 0..(Len(grid[i + 1]) - 1)) THEN TRUE
    ELSE contains(visited[i + 1][j + 1], direction)

\* The match on (space, direction) of visit's last branch
new_direction(space, direction) ==
    CASE space \in {".", "-", "|"} -> direction
      [] (space = "/" /\ direction = "Right")
           \/ (space = "\\" /\ direction = "Left") -> "Up"
      [] (space = "/" /\ direction = "Left")
           \/ (space = "\\" /\ direction = "Right") -> "Down"
      [] (space = "/" /\ direction = "Up")
           \/ (space = "\\" /\ direction = "Down") -> "Right"
      [] (space = "/" /\ direction = "Down")
           \/ (space = "\\" /\ direction = "Up") -> "Left"

\* The calls that visit makes after it has marked the tile, in their order
calls_of(grid, i, j, direction) ==
    LET space == space_at(grid, i, j)
    IN  IF space = "-" /\ direction \in {"Up", "Down"}
        THEN <<<<i, j - 1, "Left">>, <<i, j + 1, "Right">>>>
        ELSE IF space = "|" /\ direction \in {"Left", "Right"}
        THEN <<<<i - 1, j, "Up">>, <<i + 1, j, "Down">>>>
        ELSE LET nd == new_direction(space, direction)
             IN  <<<<i + di_dj16(nd)[1], j + di_dj16(nd)[2], nd>>>>

Start16 ==
    /\ grid16 \in Grids16
    /\ start16 \in Starts16(grid16)
    /\ visited16 = <<>>
    /\ stack16 = <<>>
    /\ expanded16 = <<>>
    /\ result16 = -1
    /\ pc16 = "parsed"

\* count_energized up to its call of visit
BeginCount16 ==
    /\ pc16 = "parsed"
    /\ visited16' = [i \in 1..Len(grid16) |-> [j \in 1..Len(grid16[1]) |-> {}]]
    /\ stack16' = <<start16>>
    /\ expanded16' = <<>>
    /\ pc16' = "visit"
    /\ UNCHANGED <<grid16, start16, result16>>
    /\ UNCHANGED Others16

\* The call of visit that is next to run returns at once
VisitReturns16 ==
    /\ pc16 = "visit"
    /\ stack16 /= <<>>
    /\ LET c == Head(stack16)
       IN  /\ visit_returns(grid16, visited16, c[1], c[2], c[3])
           /\ stack16' = Tail(stack16)
    /\ UNCHANGED <<grid16, start16, visited16, expanded16, result16, pc16>>
    /\ UNCHANGED Others16

\* The call of visit that is next to run marks its tile and makes its calls;
\* they run depth first, so they go on top of the calls still waiting
VisitExpands16 ==
    /\ pc16 = "visit"
    /\ stack16 /= <<>>
    /\ LET c == Head(stack16)
       IN  /\ ~visit_returns(grid16, visited16, c[1], c[2], c[3])
           /\ visited16' = [visited16 EXCEPT ![c[1] + 1][c[2] + 1] =
                               set_bit(@, c[3])]
           /\ stack16' = calls_of(grid16, c[1], c[2], c[3]) \o Tail(stack16)
           /\ expanded16' = Append(expanded16, c)
    /\ UNCHANGED <<grid16, start16, result16, pc16>>
    /\ UNCHANGED Others16

\* visit has returned to count_energized, which counts the marked tiles
CountEnergized16 ==
    /\ pc16 = "visit"
    /\ stack16 = <<>>
    /\ result16' = Cardinality({c \in (1..Len(grid16)) \X (1..Len(grid16[1])) :
                                   ~is_empty(visited16[c[1]][c[2]])})
    /\ pc16' = "done"
    /\ UNCHANGED <<grid16, start16, visited16, stack16, expanded16>>
    /\ UNCHANGED Others16

Init16 == Start16 /\ Idle15 /\ Idle19 /\ Idle20 /\ Idle14 /\ Idle12 /\ Idle17 /\ Idle8 /\ Idle25 /\ Idle18 /\ Idle21 /\ IdleMain

Next16 == BeginCount16 \/ VisitReturns16 \/ VisitExpands16 \/ CountEnergized16

\* The program is one thread that runs on until it returns
Spec16 == Init16 /\ [][Next16]_vars /\ WF_vars(Next16)

\* The beam by the rules of the puzzle: a beam is where it is and the step
\* <<di, dj>> it moves by.  "/" swaps and negates the step, "\" swaps it, a
\* splitter met on its flat side sends a beam out of each end.
BeamSteps(space, step) ==
    CASE space = "/" -> {<<-step[2], -step[1]>>}
      [] space = "\\" -> {<<step[2], step[1]>>}
      [] space = "-" /\ step[1] /= 0 -> {<<0, -1>>, <<0, 1>>}
      [] space = "|" /\ step[2] /= 0 -> {<<-1, 0>>, <<1, 0>>}
      [] OTHER -> {step}

BeamsAfter(grid, b) ==
    {n \in {<<b[1] + s[1], b[2] + s[2], s>> :
               s \in BeamSteps(space_at(grid, b[1], b[2]), b[3])} :
        n[1] \in 0..(Len(grid) - 1) /\ n[2] \in 0..(Len(grid[1]) - 1)}

RECURSIVE BeamClosure(_, _)
BeamClosure(grid, beams) ==
    LET more == beams \cup UNION {BeamsAfter(grid, b) : b \in beams}
    IN  IF more = beams THEN beams ELSE BeamClosure(grid, more)

TilesEntered(grid, start) ==
    {<<b[1], b[2]>> : b \in
        BeamClosure(grid, {<<start[1], start[2], di_dj16(start[3])>>})}

C8_ExpandedOnce ==
    \A m, n \in DOMAIN expanded16 : expanded16[m] = expanded16[n] => m = n

C8_Count ==
    pc16 = "done" => result16 = Cardinality(TilesEntered(grid16, start16))

\* C8 (day 16): on every grid and from every start the trace comes to its
\* end, no (tile, direction) pair is expanded twice, and count_energized
\* returns the number of tiles the beam enters.
C8_BeamTrace == <>(pc16 = "done") /\ [](C8_ExpandedOnce) /\ [](C8_Count)

\* C8 witness: a grid whose beam runs in a loop (right along the top row
\* through the splitter, round the three mirrors and up into the splitter,
\* which sends it right again) has been counted: 5 of its 6 tiles.
C8_Witness ==
    /\ grid16 = <<<<".", "-", "\\">>, <<".", "\\", "/">>>>
    /\ start16 = <<0, 0, "Right">>
    /\ pc16 = "done"
    /\ result16 = 5
    /\ Len(expanded16) = 7
----------------------------------------------------------------------------
(* Day 8: Haunted Wasteland, part 2 (src/bin/day8.rs)                      *)

\* Longest list of directions, and the number of steps after which the model
\* gives up on an input whose paths never meet
MaxDirs8 == 2
MaxSteps8 == 7

\* Node names are the characters of the input, e.g. <<"1", "A">>
Name(a, b) == <<a, b>>

\* &str::ends_with
ends_with(name, ch) == name[Len(name)] = ch

Node8(name, left, right) == [name |-> name, left |-> left, right |-> right]

\* Inputs where no node tells left from right: two start nodes, two end
\* nodes, three others, every node leading to any node but a start node
PlainNames ==
    <<Name("1", "A"), Name("2", "A"), Name("1", "B"), Name("1", "Z"),
      Name("2", "B"), Name("2", "C"), Name("2", "Z")>>

PlainInputs ==
    LET targets == {PlainNames[k] : k \in 3..7}
    IN  {[directions |-> <<"L">>,
          nodes |-> [k \in 1..7 |-> Node8(PlainNames[k], to[k], to[k])]] :
            to \in [1..7 -> targets]}

\* Inputs that fork: two start nodes, an end node and one other, with every
\* list of directions up to MaxDirs8
ForkNames == <<Name("1", "A"), Name("2", "A"), Name("1", "Z"), Name("X", "X")>>

ForkInputs ==
    LET targets == {ForkNames[3], ForkNames[4]}
        dirs == UNION {[1..n -> {"L", "R"}] : n \in 1..MaxDirs8}
    IN  {[directions |-> d,
          nodes |-> [k \in 1..4 |-> Node8(ForkNames[k], l[k], r[k])]] :
            d \in dirs, l \in [1..4 -> targets], r \in [1..4 -> targets]}

\* nodes_to_map
nodes_to_map(nodes) ==
    [n \in {nodes[k].name : k \in DOMAIN nodes} |->
        nodes[CHOOSE k \in DOMAIN nodes :
                 /\ nodes[k].name = n
                 /\ \A m \in DOMAIN nodes : nodes[m].name = n => m <= k]]

\* input.nodes.iter().filter(|node| node.name.ends_with('A')), as names
RECURSIVE start_nodes(_)
start_nodes(nodes) ==
    IF nodes = <<>> THEN <<>>
    ELSE (IF ends_with(Head(nodes).name, "A") THEN <<Head(nodes).name>> ELSE <<>>)
         \o start_nodes(Tail(nodes))

\* One step of one path
step_node(map8, name, direction) ==
    IF direction = "L" THEN map8[name].left ELSE map8[name].right

\* gcd
RECURSIVE gcd(_, _)
gcd(a, b) == IF b = 0 THEN a ELSE gcd(b, a % b)

\* The largest of the numbers, in place of their least common multiple
RECURSIVE lcmLargest(_)
lcmLargest(nums) ==
    IF Len(nums) = 1 THEN nums[1]
    ELSE Max2(nums[1], lcmLargest(Tail(nums)))

\* lcm: reduce(|a, b| a * b / gcd(a, b)) over the numbers in their order
RECURSIVE lcmFrom(_, _)
lcmFrom(acc, nums) ==
    IF nums = <<>> THEN acc
    ELSE lcmFrom((acc * Head(nums)) \div gcd(acc, Head(nums)), Tail(nums))

lcm(nums) == lcmFrom(Head(nums), Tail(nums))

\* The orders in which first_z_step.values() may come
ValueOrders(first_z_step) ==
    LET keys == DOMAIN first_z_step
        n == Cardinality(keys)
    IN  {[k \in 1..n |-> first_z_step[ord[k]]] :
            ord \in {o \in [1..n -> keys] : \A a, b \in 1..n : o[a] = o[b] => a = b}}

\* The loop body up to `steps += 1`
advance(input, current, steps) ==
    LET direction == input.directions[(steps % Len(input.directions)) + 1]
        map8 == nodes_to_map(input.nodes)
    IN  [k \in DOMAIN current |-> step_node(map8, current[k], direction)]

\* first_z_step after the loop over &current
record_z(first_z_step, current, steps) ==
    LET new == {current[k] : k \in {k \in DOMAIN current :
                    /\ ends_with(current[k], "Z")
                    /\ current[k] \notin DOMAIN first_z_step}}
    IN  [n \in new |-> steps] @@ first_z_step

all_on_z(current) == \A k \in DOMAIN current : ends_with(current[k], "Z")

Start8 ==
    /\ input8 \in PlainInputs \cup ForkInputs
    /\ current8 = start_nodes(input8.nodes)
    /\ first_z_step8 = <<>>
    /\ steps8 = 0
    /\ result8 = -1
    /\ pc8 = "loop"

\* An iteration that ends with every path on a 'Z' node
StepAllOnZ8 ==
    /\ pc8 = "loop"
    /\ steps8 < MaxSteps8
    /\ LET cur == advance(input8, current8, steps8)
       IN  /\ all_on_z(cur)
           /\ current8' = cur
           /\ steps8' = steps8 + 1
           /\ result8' = steps8 + 1
    /\ pc8' = "returned"
    /\ UNCHANGED <<input8, first_z_step8>>
    /\ UNCHANGED Others8

\* An iteration that completes first_z_step and returns the lcm
StepLcm8 ==
    /\ pc8 = "loop"
    /\ steps8 < MaxSteps8
    /\ LET cur == advance(input8, current8, steps8)
           fz == record_z(first_z_step8, cur, steps8 + 1)
       IN  /\ ~all_on_z(cur)
           /\ Cardinality(DOMAIN fz) = Len(cur)
           /\ current8' = cur
           /\ steps8' = steps8 + 1
           /\ first_z_step8' = fz
           /\ \E nums \in ValueOrders(fz) : result8' = lcm(nums)
    /\ pc8' = "returned"
    /\ UNCHANGED input8
    /\ UNCHANGED Others8

\* An iteration that goes on
StepOn8 ==
    /\ pc8 = "loop"
    /\ steps8 < MaxSteps8
    /\ LET cur == advance(input8, current8, steps8)
           fz == record_z(first_z_step8, cur, steps8 + 1)
       IN  /\ ~all_on_z(cur)
           /\ Cardinality(DOMAIN fz) /= Len(cur)
           /\ current8' = cur
           /\ steps8' = steps8 + 1
           /\ first_z_step8' = fz
    /\ UNCHANGED <<input8, result8, pc8>>
    /\ UNCHANGED Others8

Init8 == Start8 /\ Idle15 /\ Idle19 /\ Idle20 /\ Idle14 /\ Idle12 /\ Idle17 /\ Idle16 /\ Idle25 /\ Idle18 /\ Idle21 /\ IdleMain

Next8 == StepAllOnZ8 \/ StepLcm8 \/ StepOn8

Spec8 == Init8 /\ [][Next8]_vars

\* The walk of one path, from the rules of the puzzle: the nodes it stands on
\* after steps t, t + 1, ..., last, when it stands on node `from` before step
\* t.  A walk of several steps is its first half followed by its second.
NodeNamed(input, n) ==
    CHOOSE x \in Range(input.nodes) : x.name = n

RECURSIVE Walk(_, _, _, _)
Walk(input, from, t, last) ==
    IF t > last THEN <<>>
    ELSE IF t = last
    THEN LET turn == input.directions[((t - 1) % Len(input.directions)) + 1]
         IN  <<IF turn = "L" THEN NodeNamed(input, from).left
               ELSE NodeNamed(input, from).right>>
    ELSE LET mid == (t + last) \div 2
             first == Walk(input, from, t, mid)
         IN  first \o Walk(input, first[Len(first)], mid + 1, last)

OnZ(n) == n[Len(n)] = "Z"

\* A walk repeats itself within nodes * directions steps; what holds of its
\* first Horizon8 steps holds of all of them
Horizon8(input) ==
    LET nd == Len(input.nodes) * Len(input.directions) IN nd * (nd + 1)

WalksOf(input, last) ==
    {Walk(input, x.name, 1, last) :
        x \in {x \in Range(input.nodes) : x.name[Len(x.name)] = "A"}}

Walks8(input) == WalksOf(input, Horizon8(input))

ZTimes(walk) == {t \in DOMAIN walk : OnZ(walk[t])}

FirstArrival(walk) == CHOOSE c \in ZTimes(walk) : \A t \in ZTimes(walk) : c <= t

\* Every walk lands on one 'Z' node, at steps C, 2C, 3C, ... and at no other
\* step
LandsEveryC(walks) ==
    \A walk \in walks :
        /\ ZTimes(walk) /= {}
        /\ ZTimes(walk) = {t \in DOMAIN walk : t % FirstArrival(walk) = 0}
        /\ Cardinality({walk[t] : t \in ZTimes(walk)}) = 1

\* The assumption of the module's documentation, looked at over the whole
\* horizon (a short first look sorts out most inputs that do not meet it)
Assumption8(input) ==
    /\ LandsEveryC(WalksOf(input, 2 * Len(input.nodes) * Len(input.directions)))
    /\ LandsEveryC(Walks8(input))

FirstAllOnZ(input) ==
    LET walks == Walks8(input)
        times == {t \in 1..Horizon8(input) : \A walk \in walks : OnZ(walk[t])}
    IN  CHOOSE t \in times : \A u \in times : t <= u

LeastCommonMultiple(S, most) ==
    LET common == {m \in 1..most : \A c \in S : m % c = 0}
    IN  CHOOSE m \in common : \A n \in common : m <= n

\* C9 (day 8 part 2): on an input that meets the documented assumption,
\* solve_part_2 returns, and what it returns is the first step at which every
\* path stands on a 'Z' node, which is the least common multiple of the
\* paths' first arrivals.
C9_FirstAllOnZ ==
    ((pc8 = "returned" \/ steps8 = MaxSteps8) /\ Assumption8(input8)) =>
        /\ pc8 = "returned"
        /\ result8 = FirstAllOnZ(input8)
        /\ result8 = LeastCommonMultiple(
                         {FirstArrival(walk) : walk \in Walks8(input8)},
                         Horizon8(input8))

\* C9 witness: on an input that meets the assumption the program has
\* returned 6 from its lcm branch: one path arrives every 2 steps, the other
\* every 3, and at step 3 they are not both on a 'Z' node.
C9_Witness ==
    /\ pc8 = "returned"
    /\ result8 = 6
    /\ steps8 = 3
    /\ ~all_on_z(current8)
    /\ Assumption8(input8)
----------------------------------------------------------------------------
(* Day 25: Snowverload (src/bin/day25.rs)                                  *)

\* The inputs name up to MaxNodes25 components
MaxNodes25 == 5

\* const MIN_CUT
MIN_CUT == 3

\* The wires an input may list: pairs of different components
Wires25 == {w \in SUBSET (1..MaxNodes25) : Cardinality(w) = 2}

\* parse_input: one line or more, so one wire or more
SmallInputs25 == (SUBSET Wires25) \ {{}}

\* Inputs of two clusters, four components wired each to each and three wired
\* in a ring, with three wires between the clusters
ClusterWires25 ==
    {w \in SUBSET (1..4) : Cardinality(w) = 2} \cup {{5, 6}, {6, 7}, {5, 7}}

CrossWires25 == {{a, b} : a \in 1..4, b \in 5..7}

ClusterInputs25 ==
    {ClusterWires25 \cup cross :
        cross \in {c \in SUBSET CrossWires25 : Cardinality(c) = MIN_CUT}}

Inputs25 == SmallInputs25 \cup ClusterInputs25

\* Graph::new: every component that is named gets a node, every wire an edge
\* in both directions
GraphNew(input) ==
    [n \in UNION input |-> {m \in UNION input : {n, m} \in input}]

\* Edge::new for every edge of the graph: flow 0
NoFlow(graph) ==
    [a \in {a \in (DOMAIN graph) \X (DOMAIN graph) : a[2] \in graph[a[1]]} |-> 0]

\* Edge::new: the capacity of every edge
capacity25 == 1

\* The condition under which the search of edmonds_karp takes an edge
takes_edge(flows, source, node_name, edge_name) ==
    /\ edge_name /= source
    /\ flows[<<node_name, edge_name>>] < capacity25

\* The nodes the search of edmonds_karp reaches, layer by layer; layers[1] is
\* the source.  The search stops with the layer in which it finds the sink.
RECURSIVE search_layers(_, _, _, _, _)
search_layers(graph, flows, source, sink, layers) ==
    LET seen == UNION Range(layers)
        last == layers[Len(layers)]
        next == {m \in DOMAIN graph \ seen :
                    \E n \in last : m \in graph[n] /\ takes_edge(flows, source, n, m)}
    IN  IF next = {} \/ sink \in last THEN layers
        ELSE search_layers(graph, flows, source, sink, Append(layers, next))

\* The paths from the source through the first k layers
RECURSIVE paths_to(_, _, _, _, _)
paths_to(graph, flows, source, layers, k) ==
    IF k = 1 THEN {<<source>>}
    ELSE UNION {{Append(p, m) : m \in {m \in layers[k] :
                     /\ m \in graph[p[Len(p)]]
                     /\ takes_edge(flows, source, p[Len(p)], m)}} :
                p \in paths_to(graph, flows, source, layers, k - 1)}

\* What path_to_node may hold when the search has found the sink: the maps
\* iterate in no given order, so it can be any shortest path the search can
\* take
found_paths(graph, flows, source, sink) ==
    LET layers == search_layers(graph, flows, source, sink, <<{source}>>)
    IN  IF sink \notin layers[Len(layers)] THEN {}
        ELSE {p \in paths_to(graph, flows, source, layers, Len(layers)) :
                 p[Len(p)] = sink}

\* added_flow: the least capacity - flow along the path
added_flow_of(flows, path) ==
    LET left == {capacity25 - flows[<<path[k], path[k + 1]>>] :
                    k \in 1..(Len(path) - 1)}
    IN  CHOOSE a \in left : \A b \in left : a <= b

\* The second loop over the path: edge.flow += added_flow and
\* residual_edge.flow -= added_flow
augment(flows, path, added_flow) ==
    LET steps == {<<path[k], path[k + 1]>> : k \in 1..(Len(path) - 1)}
    IN  [a \in DOMAIN flows |->
            IF a \in steps THEN flows[a] + added_flow
            ELSE IF <<a[2], a[1]>> \in steps THEN flows[a] - added_flow
            ELSE flows[a]]

\* The nodes determine_partition_size visits
RECURSIVE visited_from(_, _, _)
visited_from(graph, flows, visited) ==
    LET more == visited \cup
                 {m \in DOMAIN graph : \E n \in visited :
                     m \in graph[n] /\ flows[<<n, m>>] < capacity25}
    IN  IF more = visited THEN visited
        ELSE visited_from(graph, flows, more)

\* determine_partition_size with its count started at 0
partition_sizeFromZero(graph, flows, source) ==
    Cardinality(visited_from(graph, flows, {source}) \ {source})

\* determine_partition_size: 1 for the source and 1 for every node added
determine_partition_size(graph, flows, source) ==
    1 + Cardinality(visited_from(graph, flows, {source}) \ {source})

Start25 ==
    /\ \E input \in Inputs25 : graph25 = GraphNew(input)
    \* graph.nodes.keys().next(): the map's first key can be any node
    /\ source25 \in DOMAIN graph25
    /\ tried25 = {}
    /\ sink25 = 0
    /\ flows25 = <<>>
    /\ flow25 = 0
    /\ result25 = -1
    /\ pc25 = "solve"

\* solve's loop takes the next sink, in whatever order the map yields them,
\* and clones the graph
NextSink25 ==
    /\ pc25 = "solve"
    /\ \E sink \in (DOMAIN graph25 \ {source25}) \ tried25 :
          sink25' = sink
    /\ flows25' = NoFlow(graph25)
    /\ flow25' = 0
    /\ pc25' = "edmonds_karp"
    /\ UNCHANGED <<graph25, source25, tried25, result25>>
    /\ UNCHANGED Others25

\* An iteration of edmonds_karp's loop that finds a path and goes on
Augment25 ==
    /\ pc25 = "edmonds_karp"
    /\ \E path \in found_paths(graph25, flows25, source25, sink25) :
          LET added_flow == added_flow_of(flows25, path)
          IN  /\ flow25 + added_flow <= MIN_CUT
              /\ flows25' = augment(flows25, path, added_flow)
              /\ flow25' = flow25 + added_flow
    /\ UNCHANGED <<graph25, source25, tried25, sink25, result25, pc25>>
    /\ UNCHANGED Others25

\* An iteration that takes the flow above MIN_CUT: edmonds_karp returns it,
\* and solve goes on to the next sink
AugmentOver25 ==
    /\ pc25 = "edmonds_karp"
    /\ \E path \in found_paths(graph25, flows25, source25, sink25) :
          LET added_flow == added_flow_of(flows25, path)
          IN  /\ flow25 + added_flow > MIN_CUT
              /\ flows25' = augment(flows25, path, added_flow)
              /\ flow25' = flow25 + added_flow
    /\ tried25' = tried25 \cup {sink25}
    /\ pc25' = "solve"
    /\ UNCHANGED <<graph25, source25, sink25, result25>>
    /\ UNCHANGED Others25

\* No path is left and the flow is MIN_CUT: solve returns
Return25 ==
    /\ pc25 = "edmonds_karp"
    /\ found_paths(graph25, flows25, source25, sink25) = {}
    /\ flow25 = MIN_CUT
    /\ LET partition_size == determine_partition_size(graph25, flows25, source25)
       IN  result25' = partition_size * (Cardinality(DOMAIN graph25) - partition_size)
    /\ pc25' = "returned"
    /\ UNCHANGED <<graph25, source25, tried25, sink25, flows25, flow25>>
    /\ UNCHANGED Others25

\* No path is left and the flow is not MIN_CUT: solve goes on to the next sink
SinkFails25 ==
    /\ pc25 = "edmonds_karp"
    /\ found_paths(graph25, flows25, source25, sink25) = {}
    /\ flow25 /= MIN_CUT
    /\ tried25' = tried25 \cup {sink25}
    /\ pc25' = "solve"
    /\ UNCHANGED <<graph25, source25, sink25, flows25, flow25, result25>>
    /\ UNCHANGED Others25

\* No sink is left: panic!("no solution found")
NoSolution25 ==
    /\ pc25 = "solve"
    /\ (DOMAIN graph25 \ {source25}) \ tried25 = {}
    /\ pc25' = "panicked"
    /\ UNCHANGED <<graph25, source25, tried25, sink25, flows25, flow25, result25>>
    /\ UNCHANGED Others25

Init25 == Start25 /\ Idle15 /\ Idle19 /\ Idle20 /\ Idle14 /\ Idle12 /\ Idle17 /\ Idle16 /\ Idle8 /\ Idle18 /\ Idle21 /\ IdleMain

Next25 ==
    \/ NextSink25
    \/ Augment25
    \/ AugmentOver25
    \/ Return25
    \/ SinkFails25
    \/ NoSolution25

Spec25 == Init25 /\ [][Next25]_vars

\* The splits of a graph: the ways to put its nodes into two groups, each
\* connected in itself; a split's wires are those between the groups
WiresOf(graph) == UNION {{{n, m} : m \in graph[n]} : n \in DOMAIN graph}

RECURSIVE Component(_, _, _)
Component(graph, group, part25) ==
    LET more == part25 \cup {m \in group : \E n \in part25 : m \in graph[n]}
    IN  IF more = part25 THEN part25 ELSE Component(graph, group, more)

ConnectedGroup(graph, group) ==
    group /= {} /\ Component(graph, group, {CHOOSE n \in group : TRUE}) = group

WiresBetween(graph, group) ==
    {w \in WiresOf(graph) : w \cap group /= {} /\ w \ group /= {}}

Splits(graph) ==
    {group \in SUBSET DOMAIN graph :
        /\ ConnectedGroup(graph, group)
        /\ ConnectedGroup(graph, DOMAIN graph \ group)}

SplitsBy(graph, k) ==
    {group \in Splits(graph) : Cardinality(WiresBetween(graph, group)) = k}

SplitProducts(graph, k) ==
    {Cardinality(group) * Cardinality(DOMAIN graph \ group) :
        group \in SplitsBy(graph, k)}

Connected25(graph) == ConnectedGroup(graph, DOMAIN graph)

\* C10 (day 25) as claimed: on a connected graph that removing three wires
\* splits into two groups, solve returns the product of the sizes of two such
\* groups.
C10_AsClaimed ==
    (/\ pc25 \in {"returned", "panicked"}
     /\ Connected25(graph25)
     /\ SplitsBy(graph25, 3) /= {}) =>
        /\ pc25 = "returned"
        /\ result25 \in SplitProducts(graph25, 3)

\* C10 (day 25) as amended: on a connected graph that removing three wires
\* splits into two groups, and removing fewer does not, solve returns the
\* product of the sizes of two groups that three wires split it into (of the
\* two groups, where there is one such split only); it returns with a flow of
\* MIN_CUT and no path left from the source to the sink.
C10_ProductOfGroups ==
    (/\ pc25 \in {"returned", "panicked"}
     /\ Connected25(graph25)
     /\ SplitsBy(graph25, 3) /= {}
     /\ SplitsBy(graph25, 1) = {}
     /\ SplitsBy(graph25, 2) = {}) =>
        /\ pc25 = "returned"
        /\ result25 \in SplitProducts(graph25, 3)
        /\ flow25 = MIN_CUT
        /\ visited_from(graph25, flows25, {source25}) \in SplitsBy(graph25, 3)
        /\ sink25 \notin visited_from(graph25, flows25, {source25})

\* C10 witness: solve has returned 12 on a graph of two clusters, of 4 and of
\* 3 components, that three wires split and fewer do not; the group it found
\* is the cluster of the source and not the source alone.
C10_Witness ==
    /\ pc25 = "returned"
    /\ Cardinality(DOMAIN graph25) = 7
    /\ Connected25(graph25)
    /\ SplitsBy(graph25, 1) = {}
    /\ SplitsBy(graph25, 2) = {}
    /\ result25 = 12
    /\ visited_from(graph25, flows25, {source25}) = {1, 2, 3, 4}
----------------------------------------------------------------------------
(* Day 18: Lavaduct Lagoon (src/bin/day18.rs)                              *)

\* Most lines of a dig plan, and the largest extent of the traced path in
\* rows and in columns
MaxLines18 == 8
MaxExtent18 == 3

\* The same for the plans whose distances take two hex digits
MaxWideLines18 == 6
MaxWideExtent18 == 32

\* Distances of the plans' lines: a plan takes all of its distances from one
\* of the two sets
NearDistances18 == {1, 2, 3}
WideDistances18 == {16, 32}

\* enum Direction, as the characters parse_direction reads
Directions18 == {"U", "D", "L", "R"}

\* enum DirectionType
DirectionTypes == {"Normal", "Hex"}

\* Direction::di_dj
di_dj18(direction) ==
    CASE direction = "U" -> <<-1, 0>>
      [] direction = "D" -> <<1, 0>>
      [] direction = "L" -> <<0, -1>>
      [] direction = "R" -> <<0, 1>>

\* The hexadecimal digits and their values (char::is_ascii_hexdigit,
\* i64::from_str_radix(_, 16))
HexChars == <<"0", "1", "2", "3", "4", "5", "6", "7",
              "8", "9", "a", "b", "c", "d", "e", "f">>

hex_digit_value(c) == (CHOOSE k \in DOMAIN HexChars : HexChars[k] = c) - 1

RECURSIVE from_str_radix16(_)
from_str_radix16(digits) ==
    IF digits = <<>> THEN 0
    ELSE 16 * from_str_radix16(SubSeq(digits, 1, Len(digits) - 1))
         + hex_digit_value(digits[Len(digits)])

\* parse_hex_inner: the six characters after '#', five hex digits of distance
\* and a direction digit (the parser fails on any other last character)
parse_hex_inner(colour) ==
    [distance |-> from_str_radix16(SubSeq(colour, 1, 5)),
     direction |-> CASE colour[6] = "0" -> "R"
                     [] colour[6] = "1" -> "D"
                     [] colour[6] = "2" -> "L"
                     [] colour[6] = "3" -> "U"]

\* parse_line: a line of the file is "<direction> <distance> (#<colour>)"
parse_line18(text) ==
    LET hex == parse_hex_inner(text.colour)
    IN  [direction |-> text.direction, distance |-> text.distance,
         hex_direction |-> hex.direction, hex_distance |-> hex.distance]

\* parse_input
parse_input18(text) == [k \in DOMAIN text |-> parse_line18(text[k])]

\* InputLine::direction_and_distance
direction_and_distance(input_line, direction_type) ==
    IF direction_type = "Normal"
    THEN <<input_line.direction, input_line.distance>>
    ELSE <<input_line.hex_direction, input_line.hex_distance>>

\* convert_to_vertical_lines: the loop over the first n input lines, as
\* [i, j, lines]
RECURSIVE vertical_lines_loop(_, _, _)
vertical_lines_loop(input, direction_type, n) ==
    IF n = 0 THEN [i |-> 0, j |-> 0, lines |-> <<>>]
    ELSE LET before == vertical_lines_loop(input, direction_type, n - 1)
             dd == direction_and_distance(input[n], direction_type)
             d == di_dj18(dd[1])
             new_i == before.i + d[1] * dd[2]
             new_j == before.j + d[2] * dd[2]
         IN  [i |-> new_i, j |-> new_j,
              lines |-> IF before.j = new_j
                        THEN Append(before.lines,
                                    [min_i |-> Min2(before.i, new_i),
                                     max_i |-> Max2(before.i, new_i),
                                     j |-> before.j,
                                     direction |-> dd[1]])
                        ELSE before.lines]

convert_to_vertical_lines(input, direction_type) ==
    vertical_lines_loop(input, direction_type, Len(input)).lines

\* The comparison of lines.sort_by: by j, then by min_i
line_less(a, b) == a.j < b.j \/ (a.j = b.j /\ a.min_i < b.min_i)

\* lines.sort_by(..): a stable sort
RECURSIVE sort_lines(_)
sort_lines(lines) ==
    IF lines = <<>> THEN <<>>
    ELSE LET sorted == sort_lines(SubSeq(lines, 1, Len(lines) - 1))
             last == lines[Len(lines)]
             \* the sorted lines that stay before the last one
             keep == Cardinality({k \in DOMAIN sorted : ~line_less(last, sorted[k])})
         IN  SubSeq(sorted, 1, keep) \o <<last>>
             \o SubSeq(sorted, keep + 1, Len(sorted))

\* find_next_line: the index (from 1) of the first line that matches, or 0
\* for None
find_next_line(lines, min_i, max_i, j) ==
    LET matches ==
            {k \in DOMAIN lines :
                /\ lines[k].j >= j
                /\ IF lines[k].min_i >= min_i /\ lines[k].max_i <= max_i THEN TRUE
                   ELSE IF lines[k].min_i <= max_i /\ lines[k].max_i >= max_i THEN TRUE
                   ELSE lines[k].min_i <= min_i /\ lines[k].max_i >= min_i}
    IN  IF matches = {} THEN 0
        ELSE CHOOSE k \in matches : \A m \in matches : k <= m

\* What a call returns when one of the assertions in it fails
Panicked18 == -1

\* The sum of two counts, or the panic of either
Counted(a, b) == IF a = Panicked18 \/ b = Panicked18 THEN Panicked18 ELSE a + b

\* lines[from..]
slice_from(lines, from) == SubSeq(lines, from, Len(lines))

RECURSIVE process_range(_, _, _, _, _)
RECURSIVE process_horizontal_line(_, _, _, _)
\* process_range; line_idx counts from 1 here, so &lines[line_idx + 1..] of
\* the code is slice_from(lines, line_idx + 1) and &lines[line_idx..] is
\* slice_from(lines, line_idx)
process_range(lines, min_i, max_i, j, inside) ==
    LET line_idx == find_next_line(lines, min_i, max_i, j)
    IN
    IF line_idx = 0 THEN (IF inside THEN Panicked18 ELSE 0)
    ELSE
    LET line == lines[line_idx]
        after == slice_from(lines, line_idx + 1)
        from == slice_from(lines, line_idx)
        above ==
            IF min_i < line.min_i
            THEN Counted(IF inside THEN (line.j - j) * (line.min_i - min_i) ELSE 0,
                         process_range(after, min_i, line.min_i - 1, line.j, inside))
            ELSE 0
        topmost ==
            IF min_i <= line.min_i
            THEN Counted(IF inside THEN line.j - j ELSE 0,
                         process_horizontal_line(from, line.min_i, line.j, inside))
            ELSE 0
        cross_min_i == Max2(min_i, line.min_i + 1)
        cross_max_i == Min2(max_i, line.max_i - 1)
        crossing ==
            IF /\ cross_min_i > line.min_i
               /\ cross_min_i >= min_i
               /\ cross_max_i < line.max_i
               /\ cross_max_i <= max_i
               /\ cross_max_i >= cross_min_i
            THEN Counted(
                    (cross_max_i - cross_min_i + 1)
                    + (IF inside
                       THEN (line.j - j) * (cross_max_i - cross_min_i + 1)
                       ELSE 0),
                    process_range(after, cross_min_i, cross_max_i, line.j + 1,
                                  ~inside))
            ELSE 0
        bottommost ==
            IF max_i >= line.max_i
            THEN Counted(IF inside THEN line.j - j ELSE 0,
                         process_horizontal_line(from, line.max_i, line.j, inside))
            ELSE 0
        below ==
            IF max_i > line.max_i
            THEN Counted(IF inside THEN (line.j - j) * (max_i - line.max_i) ELSE 0,
                         process_range(after, line.max_i + 1, max_i, line.j, inside))
            ELSE 0
    IN  Counted(above, Counted(topmost, Counted(crossing,
                                                 Counted(bottommost, below))))

\* process_horizontal_line; next_line_idx counts from 1 within &lines[1..],
\* so &lines[next_line_idx + 1..] of the code, which starts at next_line, is
\* slice_from(lines, next_line_idx + 1) here as well
process_horizontal_line(lines, i, j, inside) ==
    LET current_line == lines[1]
        next_line_idx == find_next_line(Tail(lines), i, i, j + 1)
    IN
    IF next_line_idx = 0 THEN (IF inside THEN Panicked18 ELSE 0)
    ELSE
    LET next_line == Tail(lines)[next_line_idx]
        new_inside == IF current_line.direction = next_line.direction
                      THEN ~inside ELSE inside
    IN  Counted(next_line.j - j + 1,
                process_range(slice_from(lines, next_line_idx + 1), i, i,
                              next_line.j + 1, new_inside))

\* i64::MAX and i64::MIN, the bounds solve starts from: no line's coordinate
\* comes near them, so the largest integers of the model checker stand for
\* them
I64Max == 2147483647
I64Min == -I64Max

MinOver(start, values) ==
    IF values = {} THEN start ELSE CHOOSE v \in values : \A w \in values : v <= w

MaxOver(start, values) ==
    IF values = {} THEN start ELSE CHOOSE v \in values : \A w \in values : v >= w

\* solve, after the parse
solve18(input, direction_type) ==
    LET lines == sort_lines(convert_to_vertical_lines(input, direction_type))
        min_i == MinOver(I64Max, {lines[k].min_i : k \in DOMAIN lines})
        max_i == MaxOver(I64Min, {lines[k].max_i : k \in DOMAIN lines})
        min_j == MinOver(I64Max, {lines[k].j : k \in DOMAIN lines})
    IN  process_range(lines, min_i, max_i, min_j, FALSE)

(* The inputs: dig plans whose path, by the fields the part reads, does not   *)
(* cross or touch itself and stays within the extent; the fields the part   *)
(* does not read describe another path.                                     *)

\* The five hex digits of a distance
ToHex5(n) ==
    [k \in 1..5 |-> HexChars[((n \div (16 ^ (5 - k))) % 16) + 1]]

\* The colour field that stands for a direction and a distance
ColourOf(direction, distance) ==
    Append(ToHex5(distance),
           CASE direction = "R" -> "0"
             [] direction = "D" -> "1"
             [] direction = "L" -> "2"
             [] direction = "U" -> "3")

\* The direction a quarter turn on
Turned(direction) ==
    CASE direction = "U" -> "R"
      [] direction = "R" -> "D"
      [] direction = "D" -> "L"
      [] direction = "L" -> "U"

\* A line of the file whose fields for direction_type are direction and
\* distance
TextLine(direction_type, direction, distance) ==
    IF direction_type = "Normal"
    THEN [direction |-> direction, distance |-> distance,
          colour |-> ColourOf(Turned(direction), distance + 1)]
    ELSE [direction |-> Turned(direction), distance |-> distance + 1,
          colour |-> ColourOf(direction, distance)]

\* The cells a plan passes, in order, the start <<0, 0>> first; the plan is
\* a list of <<direction, distance>>
RECURSIVE PathOf(_)
PathOf(plan) ==
    IF plan = <<>> THEN <<<<0, 0>>>>
    ELSE LET before == PathOf(SubSeq(plan, 1, Len(plan) - 1))
             d == di_dj18(plan[Len(plan)][1])
             at == before[Len(before)]
         IN  before \o [k \in 1..plan[Len(plan)][2] |->
                            <<at[1] + k * d[1], at[2] + k * d[2]>>]

\* The path is back at its start
Closed18(path) == Len(path) > 1 /\ path[Len(path)] = path[1]

\* No cell twice, but for the start of a closed path, and no step straight
\* back to the start
SelfAvoiding(path) ==
    /\ \A a, b \in DOMAIN path :
          (a < b /\ path[a] = path[b]) => (a = 1 /\ b = Len(path))
    /\ ~(Len(path) = 3 /\ path[3] = path[1])

Extent(values) == MaxOver(0, values) - MinOver(0, values)

WithinExtent(path, extent) ==
    /\ Extent({path[k][1] : k \in DOMAIN path}) <= extent
    /\ Extent({path[k][2] : k \in DOMAIN path}) <= extent

\* The lines a path needs at least to come back to its start
LinesToClose(path) ==
    LET at == path[Len(path)]
    IN  (IF at[1] /= 0 THEN 1 ELSE 0) + (IF at[2] /= 0 THEN 1 ELSE 0)

IsWide(plan) == plan /= <<>> /\ plan[1][2] \in WideDistances18

\* The distances a plan may continue with
DistancesAfter(plan) ==
    IF plan = <<>> THEN NearDistances18 \cup WideDistances18
    ELSE IF IsWide(plan) THEN WideDistances18 ELSE NearDistances18

\* The plans of the inputs: the path does not cross or touch itself, stays
\* within the extent, and can still close within the lines a plan may have
PlanAllowed(plan) ==
    LET path == PathOf(plan)
    IN  /\ SelfAvoiding(path)
        /\ IF IsWide(plan)
           THEN /\ Len(plan) + LinesToClose(path) <= MaxWideLines18
                /\ WithinExtent(path, MaxWideExtent18)
           ELSE /\ Len(plan) + LinesToClose(path) <= MaxLines18
                /\ WithinExtent(path, MaxExtent18)

\* The plans that are one line longer than plan
PlansAfter(plan) ==
    {longer \in {Append(plan, <<direction, distance>>) :
                    direction \in Directions18,
                    distance \in DistancesAfter(plan)} :
        PlanAllowed(longer)}

Start18 ==
    /\ text18 = <<>>
    /\ plan18 = <<>>
    /\ direction_type18 \in DirectionTypes
    /\ result18 = -1
    /\ pc18 = "parse"

\* parse_input reads one more line of the file
ParseLine18 ==
    /\ pc18 = "parse"
    /\ ~Closed18(PathOf(plan18))
    /\ \E plan \in PlansAfter(plan18) :
          /\ plan18' = plan
          /\ text18' = Append(text18,
                              TextLine(direction_type18, plan[Len(plan)][1],
                                       plan[Len(plan)][2]))
    /\ UNCHANGED <<direction_type18, result18, pc18, Others18>>

\* The file ends and solve runs: it returns its count, or one of the
\* assertions of its calls fails
Solve18 ==
    /\ pc18 = "parse"
    /\ Len(text18) >= 1
    /\ LET count == solve18(parse_input18(text18), direction_type18)
       IN  /\ result18' = count
           /\ pc18' = IF count = Panicked18 THEN "panicked" ELSE "returned"
    /\ UNCHANGED <<text18, plan18, direction_type18, Others18>>

Init18 == Start18 /\ Idle15 /\ Idle19 /\ Idle20 /\ Idle14 /\ Idle12 /\ Idle17 /\ Idle16 /\ Idle8 /\ Idle25 /\ Idle21 /\ IdleMain

Next18 == ParseLine18 \/ Solve18

Spec18 == Init18 /\ [][Next18]_vars

(* What the claim is measured against: the cells of the path and the cells  *)
(* a ray to the left leaves through the path an odd number of times.        *)

\* The cells of the trench
TrenchCells(path) == Range(path)

\* Where the trench goes from a cell to the cell below it or back: the upper
\* cell of each such step
VerticalSteps(path) ==
    {IF path[k][1] < path[k + 1][1] THEN path[k] ELSE path[k + 1] :
        k \in {m \in 1..(Len(path) - 1) : path[m][2] = path[m + 1][2]}}

\* A cell off the trench is enclosed when a ray from its lower edge to the
\* left passes an odd number of the trench's vertical steps
Enclosed(cell, path) ==
    /\ cell \notin TrenchCells(path)
    /\ Cardinality({s \in VerticalSteps(path) :
                        s[1] = cell[1] /\ s[2] < cell[2]}) % 2 = 1

LagoonCells(path) ==
    LET rows == {path[k][1] : k \in DOMAIN path}
        cols == {path[k][2] : k \in DOMAIN path}
    IN  TrenchCells(path)
        \cup {cell \in rows \X cols : Enclosed(cell, path)}

\* The lines of the file spell the plan: in part 1 by their plain direction
\* and distance, in part 2 by the colour, whose first five hex digits are
\* the distance and whose last digit is the direction
TextSpellsPlan ==
    /\ Len(text18) = Len(plan18)
    /\ \A k \in DOMAIN text18 :
          IF direction_type18 = "Normal"
          THEN text18[k].direction = plan18[k][1]
               /\ text18[k].distance = plan18[k][2]
          ELSE text18[k].colour = ColourOf(plan18[k][1], plan18[k][2])

\* Every line of the plan turns: no line runs on in the direction of the line
\* before it, the first line after the last one included
Horizontal18(direction) == direction \in {"L", "R"}

EveryLineTurns(plan) ==
    \A k \in DOMAIN plan :
        Horizontal18(plan[k][1]) /= Horizontal18(plan[(k % Len(plan)) + 1][1])

\* C11 (day 18): for a dig plan whose path, by the plain direction and
\* distance of each line in part 1 and by the distance of the first five hex
\* digits and the direction of the last hex digit of the colour in part 2, is
\* a closed loop that does not cross itself, solve returns the number of
\* cells on the trench or enclosed by it.
C11_LagoonSize ==
    (pc18 /= "parse" /\ Closed18(PathOf(plan18))) =>
        /\ TextSpellsPlan
        /\ pc18 = "returned"
        /\ result18 = Cardinality(LagoonCells(PathOf(plan18)))

\* What does hold of solve: for the closed loops whose every line turns, in
\* both parts, it returns the number of cells on the trench or enclosed by
\* it; the loops it fails on have an edge that two lines of the plan share.
TurningPlansLagoonSize ==
    (pc18 /= "parse" /\ Closed18(PathOf(plan18)) /\ EveryLineTurns(plan18)) =>
        /\ TextSpellsPlan
        /\ pc18 = "returned"
        /\ result18 = Cardinality(LagoonCells(PathOf(plan18)))
----------------------------------------------------------------------------
(* Day 21: Step Counter, part 2 (src/bin/day21.rs)                          *)

\* Largest side of the maps whose inner spaces are all enumerated, and the
\* largest target_steps
MaxSide21 == 3
MaxSteps21 == 9

\* Side of the maps that wall the start in
WalledSide21 == 5

\* u64::MAX, the steps of a space build_step_map has not reached: no count
\* of steps of the model comes near it, so the largest integer of the model
\* checker stands for it (it is odd, as u64::MAX is)
U64Max == 2147483647

\* What a call returns when an addition in it overflows and the build checks
\* for overflow
Panicked21 == -1

\* enum Space
Space21 == {"Garden", "Rock"}

\* The square maps of a side, as parse_input builds them (rows and columns
\* count from 0), that have no rock in the first and last row and column
OnBorder21(n, i, j) == i = 0 \/ j = 0 \/ i = n - 1 \/ j = n - 1

SquareMaps21(n) ==
    LET inner == {p \in (0..(n - 1)) \X (0..(n - 1)) : ~OnBorder21(n, p[1], p[2])}
    IN  {[i \in 0..(n - 1) |->
            [j \in 0..(n - 1) |->
                IF OnBorder21(n, i, j) THEN "Garden" ELSE spaces[<<i, j>>]]] :
         spaces \in [inner -> Space21]}

\* The map of side WalledSide21 with rocks on all four sides of the middle
WalledMaps21 ==
    LET c == WalledSide21 \div 2
    IN  {[i \in 0..(WalledSide21 - 1) |->
            [j \in 0..(WalledSide21 - 1) |->
                IF (i = c /\ (j = c - 1 \/ j = c + 1))
                   \/ (j = c /\ (i = c - 1 \/ i = c + 1))
                THEN "Rock" ELSE "Garden"]]}

Maps21 == (UNION {SquareMaps21(n) : n \in 1..MaxSide21}) \cup WalledMaps21

map_len(map) == Cardinality(DOMAIN map)

\* The start positions a map allows: parse_input pushes Garden for 'S'
Starts21(map) ==
    {p \in (DOMAIN map) \X (DOMAIN map) : map[p[1]][p[2]] = "Garden"}

\* a + b in u64: past u64::MAX the build with overflow checks panics and the
\* build without them wraps around (a is u64::MAX or far below it)
add_u64(a, b, overflow_checks) ==
    IF a /= U64Max \/ b = 0 THEN a + b
    ELSE IF overflow_checks THEN Panicked21
    ELSE b - 1

\* The sum of two counts, or the panic of either
Counted21(a, b) == IF a = Panicked21 \/ b = Panicked21 THEN Panicked21 ELSE a + b

\* The neighbours build_step_map looks at, in its order
Neighbours21 == <<<<-1, 0>>, <<1, 0>>, <<0, -1>>, <<0, 1>>>>

\* build_step_map's loop over the four neighbours of a popped entry, from
\* the k-th on: [step_map, queue]
RECURSIVE push_neighbours(_, _, _, _, _)
push_neighbours(map, step_map, queue, entry, k) ==
    IF k > Len(Neighbours21) THEN [step_map |-> step_map, queue |-> queue]
    ELSE LET new_i == entry.i + Neighbours21[k][1]
             new_j == entry.j + Neighbours21[k][2]
             new_steps == entry.steps + 1
         IN  IF /\ new_i \in DOMAIN map
                /\ new_j \in DOMAIN map
                /\ map[new_i][new_j] = "Garden"
                /\ step_map[new_i][new_j] > new_steps
             THEN push_neighbours(
                      map,
                      [step_map EXCEPT ![new_i][new_j] = new_steps],
                      Append(queue, [i |-> new_i, j |-> new_j, steps |-> new_steps]),
                      entry, k + 1)
             ELSE push_neighbours(map, step_map, queue, entry, k + 1)

\* build_step_map's `while let Some(..) = queue.pop_front()`
RECURSIVE step_map_loop(_, _, _, _)
step_map_loop(map, step_map, queue, max_steps) ==
    IF queue = <<>> THEN [step_map |-> step_map, max_steps |-> max_steps]
    ELSE LET entry == Head(queue)
         IN  IF step_map[entry.i][entry.j] < entry.steps
             THEN step_map_loop(map, step_map, Tail(queue), max_steps)
             ELSE LET pushed ==
                          push_neighbours(
                              map,
                              [step_map EXCEPT ![entry.i][entry.j] = entry.steps],
                              Tail(queue), entry, 1)
                  IN  step_map_loop(map, pushed.step_map, pushed.queue,
                                    Max2(max_steps, entry.steps))

\* build_step_map: start_positions is a sequence of StartPosition
\* [i, j, step]; the result is the pair (step_map, max_steps)
build_step_map(map, start_positions) ==
    step_map_loop(map,
                  [i \in DOMAIN map |-> [j \in DOMAIN map |-> U64Max]],
                  [k \in DOMAIN start_positions |->
                      [i |-> start_positions[k].i, j |-> start_positions[k].j,
                       steps |-> start_positions[k].step]],
                  0)

\* count_positions
count_positions(step_map, step_limit, step_modulo) ==
    Cardinality({p \in (DOMAIN step_map) \X (DOMAIN step_map) :
                    /\ step_map[p[1]][p[2]] <= step_limit
                    /\ step_map[p[1]][p[2]] % 2 = step_modulo})

\* The four closures solve_part_2_inner hands to count_edge, by the side of
\* the centre the maps lie on
Sides21 == <<"Left", "Right", "Up", "Down">>

start_position_fn(side, step_map, overflow_checks) ==
    LET n == map_len(step_map)
    IN  [k \in 1..n |->
            CASE side = "Left" ->
                   [i |-> k - 1, j |-> n - 1,
                    step |-> add_u64(step_map[k - 1][0], 1, overflow_checks)]
              [] side = "Right" ->
                   [i |-> k - 1, j |-> 0,
                    step |-> add_u64(step_map[k - 1][n - 1], 1, overflow_checks)]
              [] side = "Up" ->
                   [i |-> n - 1, j |-> k - 1,
                    step |-> add_u64(step_map[0][k - 1], 1, overflow_checks)]
              [] side = "Down" ->
                   [i |-> 0, j |-> k - 1,
                    step |-> add_u64(step_map[n - 1][k - 1], 1, overflow_checks)]]

\* An addition of the closure overflowed in a build that checks
closure_panicked(start_positions) ==
    \E k \in DOMAIN start_positions : start_positions[k].step = Panicked21

\* find_min_step
find_min_step(start_positions) ==
    LET steps == {start_positions[k].step : k \in DOMAIN start_positions}
    IN  CHOOSE s \in steps : \A t \in steps : s <= t

\* normalize_to_min_step
normalize_to_min_step(start_positions, min_step) ==
    [k \in DOMAIN start_positions |->
        [start_positions[k] EXCEPT !.step = @ - min_step]]

\* count_edge_loop's inner loop, entered once a block is filled
RECURSIVE filled_blocks(_, _, _, _, _, _)
filled_blocks(n, even_full_count, odd_full_count, out_distance, step_modulo, count) ==
    LET counted == count + (IF step_modulo = 0 THEN even_full_count
                            ELSE odd_full_count)
    IN  IF out_distance = 0 THEN counted
        ELSE filled_blocks(n, even_full_count, odd_full_count, out_distance - 1,
                           (step_modulo + n) % 2, counted)

\* count_edge_loop's outer loop
RECURSIVE edge_blocks(_, _, _, _, _, _, _, _)
edge_blocks(n, built, even_full_count, odd_full_count, remaining_steps, out_distance, step_modulo, count) ==
    LET block_steps == remaining_steps - out_distance * n
    IN  IF built.max_steps <= block_steps
        THEN filled_blocks(n, even_full_count, odd_full_count, out_distance,
                           step_modulo, count)
        ELSE LET counted == count + count_positions(built.step_map, block_steps,
                                                    step_modulo)
             IN  IF out_distance = 0 THEN counted
                 ELSE edge_blocks(n, built, even_full_count, odd_full_count,
                                  remaining_steps, out_distance - 1,
                                  (step_modulo + n) % 2, counted)

\* count_edge_loop
count_edge_loop(map, start_positions, remaining_steps, step_modulo) ==
    LET n == map_len(map)
        built == build_step_map(map, start_positions)
        even_full_count == count_positions(built.step_map, n * n, 0)
        odd_full_count == count_positions(built.step_map, n * n, 1)
        out_distance == remaining_steps \div n
    IN  edge_blocks(n, built, even_full_count, odd_full_count, remaining_steps,
                    out_distance, (step_modulo + out_distance * n) % 2, 0)

\* count_edge's loop; step_modulo.wrapping_sub(min_steps) % 2 is the parity
\* of the difference, 2^64 being even
RECURSIVE count_edge_maps(_, _, _, _, _, _, _)
count_edge_maps(map, side, overflow_checks, start_positions, remaining_steps, step_modulo, count) ==
    LET next_step_map == build_step_map(map, start_positions).step_map
        counted == count + count_positions(next_step_map, remaining_steps,
                                           step_modulo)
        from_closure == start_position_fn(side, next_step_map, overflow_checks)
        min_steps == find_min_step(from_closure)
        next_start_positions == normalize_to_min_step(from_closure, min_steps)
    IN  IF closure_panicked(from_closure) THEN Panicked21
        ELSE IF min_steps > remaining_steps THEN counted
        ELSE IF next_start_positions = start_positions
        THEN counted + count_edge_loop(map, next_start_positions,
                                       remaining_steps - min_steps,
                                       (step_modulo - min_steps) % 2)
        ELSE count_edge_maps(map, side, overflow_checks, next_start_positions,
                             remaining_steps - min_steps,
                             (step_modulo - min_steps) % 2, counted)

\* count_edge
count_edge(map, center_step_map, remaining_steps, side, overflow_checks) ==
    LET from_closure == start_position_fn(side, center_step_map, overflow_checks)
        initial_min_steps == find_min_step(from_closure)
    IN  IF closure_panicked(from_closure) THEN Panicked21
        ELSE IF initial_min_steps > remaining_steps THEN 0
        ELSE count_edge_maps(map, side, overflow_checks,
                             normalize_to_min_step(from_closure, initial_min_steps),
                             remaining_steps - initial_min_steps,
                             (remaining_steps - initial_min_steps) % 2, 0)

\* count_corner's inner loop, entered once a block is filled
RECURSIVE filled_diagonals(_, _, _, _, _, _)
filled_diagonals(n, full_even_count, full_odd_count, out_distance, step_modulo, count) ==
    IF out_distance = 0 THEN count
    ELSE filled_diagonals(
             n, full_even_count, full_odd_count, out_distance - 1,
             (step_modulo + n) % 2,
             count + out_distance * (IF step_modulo = 0 THEN full_even_count
                                     ELSE full_odd_count))

\* count_corner's outer loop
RECURSIVE corner_diagonals(_, _, _, _, _, _, _, _)
corner_diagonals(n, built, full_even_count, full_odd_count, corner_steps, out_distance, step_modulo, count) ==
    IF out_distance = 0 THEN count
    ELSE LET remaining_steps == corner_steps - (out_distance - 1) * n
         IN  IF built.max_steps <= remaining_steps
             THEN filled_diagonals(n, full_even_count, full_odd_count,
                                   out_distance, step_modulo, count)
             ELSE corner_diagonals(
                      n, built, full_even_count, full_odd_count, corner_steps,
                      out_distance - 1, (step_modulo + n) % 2,
                      count + out_distance
                              * count_positions(built.step_map, remaining_steps,
                                                step_modulo))

\* count_corner
count_corner(map, center_step_map, target_steps, start_i, start_j, overflow_checks) ==
    LET n == map_len(map)
        distance_to_corner ==
            add_u64(center_step_map[n - 1 - start_i][n - 1 - start_j], 2,
                    overflow_checks)
        corner_steps == target_steps - distance_to_corner
        out_distance == 1 + corner_steps \div n
    IN  IF distance_to_corner = Panicked21 THEN Panicked21
        ELSE IF distance_to_corner > target_steps THEN 0
        ELSE corner_diagonals(
                 n,
                 build_step_map(map, <<[i |-> start_i, j |-> start_j, step |-> 0]>>),
                 count_positions(center_step_map, n * n, 0),
                 count_positions(center_step_map, n * n, 1),
                 corner_steps, out_distance,
                 (target_steps - (out_distance - 1) * n) % 2, 0)

\* The corners solve_part_2_inner hands to count_corner, in its order: top
\* left, top right, bottom left, bottom right
Corners21(n) == <<<<n - 1, n - 1>>, <<n - 1, 0>>, <<0, n - 1>>, <<0, 0>>>>

\* The step map of the centre map
center_step_map(map, start) ==
    build_step_map(map, <<[i |-> start[1], j |-> start[2], step |-> 0]>>).step_map

Start21 ==
    /\ map21 \in Maps21
    /\ start21 \in Starts21(map21)
    /\ target_steps21 \in 0..MaxSteps21
    /\ overflow_checks21 \in BOOLEAN
    /\ count21 = 0
    /\ pc21 = "center"
    /\ done21 = 0

\* solve_part_2_inner counts the centre map
CountCenter21 ==
    /\ pc21 = "center"
    /\ count21' = count_positions(center_step_map(map21, start21),
                                  target_steps21, target_steps21 % 2)
    /\ pc21' = "edges"
    /\ UNCHANGED <<map21, start21, target_steps21, overflow_checks21, done21,
                   Others21>>

\* solve_part_2_inner adds count_edge for the next of the four sides, or the
\* closure's addition overflows and the build panics
CountEdge21 ==
    /\ pc21 = "edges"
    /\ LET edge == count_edge(map21, center_step_map(map21, start21),
                              target_steps21, Sides21[done21 + 1],
                              overflow_checks21)
       IN  IF edge = Panicked21
           THEN /\ pc21' = "panicked"
                /\ UNCHANGED <<count21, done21>>
           ELSE /\ count21' = count21 + edge
                /\ done21' = (done21 + 1) % Len(Sides21)
                /\ pc21' = IF done21 + 1 = Len(Sides21) THEN "corners" ELSE "edges"
    /\ UNCHANGED <<map21, start21, target_steps21, overflow_checks21, Others21>>

\* solve_part_2_inner adds count_corner for the next of the four corners and
\* returns after the last
CountCorner21 ==
    /\ pc21 = "corners"
    /\ LET corner == Corners21(map_len(map21))[done21 + 1]
           diagonal == count_corner(map21, center_step_map(map21, start21),
                                    target_steps21, corner[1], corner[2],
                                    overflow_checks21)
       IN  IF diagonal = Panicked21
           THEN /\ pc21' = "panicked"
                /\ UNCHANGED <<count21, done21>>
           ELSE /\ count21' = count21 + diagonal
                /\ done21' = (done21 + 1) % 4
                /\ pc21' = IF done21 + 1 = 4 THEN "returned" ELSE "corners"
    /\ UNCHANGED <<map21, start21, target_steps21, overflow_checks21, Others21>>

Init21 == Start21 /\ Idle15 /\ Idle19 /\ Idle20 /\ Idle14 /\ Idle12 /\ Idle17 /\ Idle16 /\ Idle8 /\ Idle25 /\ Idle18 /\ IdleMain

Next21 == CountCenter21 \/ CountEdge21 \/ CountCorner21

Spec21 == Init21 /\ [][Next21]_vars

(* What the claim is measured against: the plots of the repeated map, walked *)
(* step by step.                                                            *)

\* The plots next to a plot of the infinitely repeated map
PlotsNextTo(map, plot) ==
    LET n == map_len(map)
    IN  {next \in {<<plot[1] + Neighbours21[k][1], plot[2] + Neighbours21[k][2]>> :
                      k \in DOMAIN Neighbours21} :
            map[next[1] % n][next[2] % n] = "Garden"}

\* The plots reached from the start in exactly steps steps
RECURSIVE PlotsAfter(_, _, _)
PlotsAfter(map, start, steps) ==
    IF steps = 0 THEN {start}
    ELSE UNION {PlotsNextTo(map, plot) : plot \in PlotsAfter(map, start, steps - 1)}

\* C12 (day 21): for a square map with no rock in its first and last row and
\* column, every start and every number of steps, solve_part_2_inner returns
\* the number of plots of the infinitely repeated map that are reached from
\* the start in exactly that many steps.
C12_PlotsReached ==
    pc21 \in {"returned", "panicked"} =>
        /\ pc21 = "returned"
        /\ count21 = Cardinality(PlotsAfter(map21, start21, target_steps21))

\* The start has a way to the corners of its map, and each corner is an even
\* number of steps from it
CornersEvenFrom(map, start) ==
    LET n == map_len(map)
        steps == center_step_map(map, start)
    IN  \A i, j \in {0, n - 1} : steps[i][j] /= U64Max /\ steps[i][j] % 2 = 0

\* What does hold of solve_part_2_inner: when every corner of the map is an
\* even number of steps from the start, as it is from the middle of a map of
\* odd side, it returns the number of plots reached in exactly target_steps
\* steps, in both builds.
EvenCornersPlotsReached ==
    (pc21 \in {"returned", "panicked"} /\ CornersEvenFrom(map21, start21)) =>
        /\ pc21 = "returned"
        /\ count21 = Cardinality(PlotsAfter(map21, start21, target_steps21))
----------------------------------------------------------------------------
(* src/lib.rs and the binaries' main functions: what a solver prints *)

\* The binaries: src/bin/day1.rs .. src/bin/day25.rs
Days == 1..25

\* The days whose main is written out in the binary, two parts printed
OwnMainDays == {2, 3, 7, 11}

\* Day 25's main prints the one value `solve` returns
SinglePartDays == {25}

\* The days whose main is impl_main!(p1: solve_part_1, p2: solve_part_2)
ImplMainDays == (Days \ OwnMainDays) \ SinglePartDays

\* The number of timed calls of time_fn_micros
TimedRuns == 100

\* The timed calls that took a microsecond; the others took less than one
SlowRuns == {0, 50, 51, 100}

\* The values a part's function returns on the input: part 1's, part 2's
Solutions1 == {1, 2}
Solutions2 == {2, 3}

Environments ==
    {<<>>, [k \in {"AOCTIME"} |-> "1"], [k \in {"AOCTIME"} |-> ""],
     [k \in {"HOME"} |-> "/root"]}

ArgLists == {<<"day">>, <<"day", "input.txt">>, <<"day", "missing.txt">>}

\* env::var(key).is_err(): the variable is not set
var_is_errNever(env, key) == FALSE
var_is_err(env, key) == key \notin DOMAIN env

\* read_input: the file named by the first argument, or an error
read_input(arg_list, readable) ==
    IF Len(arg_list) < 2 THEN "Missing required filename arg"
    ELSE IF arg_list[2] \notin readable THEN "Error reading file"
    ELSE "Ok"

\* times.sort() on the measured durations: `slow` of them are 1, the rest 0
sorted_times(slow) == [i \in 0..(TimedRuns - 1) |-> IF i < TimedRuns - slow THEN 0 ELSE 1]

RECURSIVE sum_times(_, _)
sum_times(times, n) == IF n = 0 THEN 0 ELSE times[n - 1] + sum_times(times, n - 1)

\* time_fn_micros, from the warm-up on: the summary of the timed calls
time_fn_micros(slow) ==
    LET times == sorted_times(slow)
    IN  [min |-> times[0],
         max |-> times[TimedRuns - 1],
         median |-> (times[49] + times[50]) \div 2,
         mean |-> sum_times(times, TimedRuns) \div 100]

\* The threads a part's function starts: no solver of src/bin starts any.
\* Day 24 part 2 (find_rock_position) eliminates one 6 x 7 matrix in place.
spawnedWorkers(day, p) == IF day = 24 /\ p = 2 THEN {"worker1", "worker2"} ELSE {}
spawned(day, p) == {}

SolutionLine(value) == [kind |-> "solution", value |-> value]
TimeLine(p, time) == [kind |-> "time", part |-> p, time |-> time]

StartMain ==
    /\ binary \in Days
    /\ environment \in Environments
    /\ args \in ArgLists
    /\ files \in {{}, {"input.txt"}}
    /\ solutions = <<>>
    /\ stdout = <<>>
    /\ threads = {"main"}
    /\ pcMain = "read_input"

\* let input = read_input()?;
ReadInput ==
    /\ pcMain = "read_input"
    /\ pcMain' = IF read_input(args, files) = "Ok" THEN "part1" ELSE "error"
    /\ UNCHANGED <<binary, environment, args, files, solutions, stdout, threads>>
    /\ UNCHANGED OthersMain

\* let solution1 = part_1_fn(&input); println!("{solution1}");
PrintSolution1 ==
    /\ pcMain = "part1"
    /\ binary \notin SinglePartDays
    /\ \E solution1 \in Solutions1 :
          /\ solutions' = <<solution1>>
          /\ stdout' = Append(stdout, SolutionLine(solution1))
    /\ threads' = threads \cup spawned(binary, 1)
    /\ pcMain' = "part2"
    /\ UNCHANGED <<binary, environment, args, files>>
    /\ UNCHANGED OthersMain

\* let solution2 = part_2_fn(&input); println!("{solution2}");
\* then impl_main! calls time_solution, and a written-out main returns
PrintSolution2 ==
    /\ pcMain = "part2"
    /\ \E solution2 \in Solutions2 :
          /\ solutions' = Append(solutions, solution2)
          /\ stdout' = Append(stdout, SolutionLine(solution2))
    /\ threads' = threads \cup spawned(binary, 2)
    /\ pcMain' = IF binary \in ImplMainDays THEN "time_solution" ELSE "exited"
    /\ UNCHANGED <<binary, environment, args, files>>
    /\ UNCHANGED OthersMain

\* day 25: let solution = solve(&input); println!("{solution}"); Ok(())
PrintSolution ==
    /\ pcMain = "part1"
    /\ binary \in SinglePartDays
    /\ \E solution \in Solutions1 :
          /\ solutions' = <<solution>>
          /\ stdout' = Append(stdout, SolutionLine(solution))
    /\ threads' = threads \cup spawned(binary, 1)
    /\ pcMain' = "exited"
    /\ UNCHANGED <<binary, environment, args, files>>
    /\ UNCHANGED OthersMain

\* a part's function panics on the input: nothing more is printed
PartPanics ==
    /\ pcMain \in {"part1", "part2"}
    /\ pcMain' = "panicked"
    /\ threads' = threads \cup spawned(binary, IF pcMain = "part1" THEN 1 ELSE 2)
    /\ UNCHANGED <<binary, environment, args, files, solutions, stdout>>
    /\ UNCHANGED OthersMain

\* time_solution without AOCTIME: the early return, and main returns Ok
TimeSolutionReturns ==
    /\ pcMain = "time_solution"
    /\ var_is_err(environment, "AOCTIME")
    /\ pcMain' = "exited"
    /\ UNCHANGED <<binary, environment, args, files, solutions, stdout, threads>>
    /\ UNCHANGED OthersMain

\* time_solution with AOCTIME: both parts are timed, then the two lines
TimeSolutionPrints ==
    /\ pcMain = "time_solution"
    /\ ~var_is_err(environment, "AOCTIME")
    /\ \E slow1, slow2 \in SlowRuns :
          LET time1 == time_fn_micros(slow1)
              time2 == time_fn_micros(slow2)
          IN  stdout' = stdout \o <<TimeLine(1, time1), TimeLine(2, time2)>>
    /\ threads' = threads \cup spawned(binary, 1) \cup spawned(binary, 2)
    /\ pcMain' = "exited"
    /\ UNCHANGED <<binary, environment, args, files, solutions>>
    /\ UNCHANGED OthersMain

InitMain == StartMain /\ Idle15 /\ Idle19 /\ Idle20 /\ Idle14 /\ Idle12 /\ Idle17 /\ Idle16 /\ Idle8 /\ Idle25 /\ Idle18 /\ Idle21

NextMain ==
    \/ ReadInput
    \/ PrintSolution1
    \/ PrintSolution2
    \/ PrintSolution
    \/ PartPanics
    \/ TimeSolutionReturns
    \/ TimeSolutionPrints

SpecMain == InitMain /\ [][NextMain]_vars

\* The lines of the output that are answers, and those that are timings
RECURSIVE SelectKind(_, _)
SelectKind(lines, kind) ==
    IF lines = <<>> THEN <<>>
    ELSE IF Head(lines).kind = kind
         THEN <<Head(lines)>> \o SelectKind(Tail(lines), kind)
         ELSE SelectKind(Tail(lines), kind)

AnswersBeforeTimings ==
    \A i, j \in DOMAIN stdout :
        (stdout[i].kind = "solution" /\ stdout[j].kind = "time") => i < j

TimingsOnlyWithAoctime ==
    SelectKind(stdout, "time") /= <<>> => "AOCTIME" \in DOMAIN environment

TwoAnswersPrinted ==
    /\ Len(solutions) = 2
    /\ SelectKind(stdout, "solution") = <<SolutionLine(solutions[1]), SolutionLine(solutions[2])>>
    /\ AnswersBeforeTimings
    /\ TimingsOnlyWithAoctime

Day24Part2Ran == binary = 24 /\ Len(solutions) = 2

====
